---------------------------- MODULE Spec2Model ----------------------------
(***************************************************************************)
(* State-machine model of the dynamic-breakpoint snapshot engine of        *)
(* node-apm (src/src/snapshot-client.ts): the breakpoint cache, the        *)
(* registered set, the polling timers, the sync fetches in flight and the  *)
(* capture calls, each capture call split at its await points.             *)
(* Spec starts from the client as the TracekitClient constructor leaves    *)
(* it (constructed and started); LifecycleSpec starts from a bare          *)
(* SnapshotClient and exercises start() and stop().                        *)
(***************************************************************************)
EXTENDS Integers, Sequences, FiniteSets, Bags, TLC

(***************************************************************************)
(* Bounds of the model.                                                    *)
(***************************************************************************)
MaxPending == 2    \* capture calls suspended at an await at one time
MaxRegister == 2   \* auto-register requests sent per call site
MaxTimers == 2     \* start() calls (each allocates one interval timer)
MaxInflight == 1   \* sync fetches awaiting their response at one time
MaxTime == 2       \* last instant of the clock (the clock starts at 1)
MaxList == 2       \* length of a fetched breakpoint list

(***************************************************************************)
(* Values.                                                                 *)
(***************************************************************************)
NoTimer == 0       \* pollInterval === undefined
NoDate == 0        \* lastFetch === undefined

\* expire_at as response.json() delivers it: absent, an ISO-8601 string or
\* an epoch number.  JSON has no Date type, so it is never a Date object.
NoExpiry == [kind |-> "undefined", t |-> 0]
ExpiryString(t) == [kind |-> "string", t |-> t]
ExpiryNumber(t) == [kind |-> "number", t |-> t]

BreakpointConfig(id, file, line, fn, label, max, count, expire, enabled) ==
    [id |-> id, file_path |-> file, line_number |-> line,
     function_name |-> fn, label |-> label, max_captures |-> max,
     capture_count |-> count, expire_at |-> expire, enabled |-> enabled]

\* cache.get(key) === undefined
NoConfig == BreakpointConfig("", "", 0, "", "", 0, 0, NoExpiry, FALSE)

\* The configs the control plane may hold.  label "" stands for a config
\* fetched without a label.
Armed1 == BreakpointConfig("bp1", "file.ts", 42, "funcA", "labelX", 0, 0, NoExpiry, TRUE)
Disabled1 == BreakpointConfig("bp1", "file.ts", 42, "funcA", "labelX", 0, 0, NoExpiry, FALSE)
Exhausted1 == BreakpointConfig("bp1", "file.ts", 42, "funcA", "labelX", 3, 3, NoExpiry, TRUE)
Expiring1 == BreakpointConfig("bp1", "file.ts", 42, "funcA", "labelX", 3, 1, ExpiryString(1), TRUE)
NoLabel2 == BreakpointConfig("bp2", "other.ts", 7, "funcB", "", 0, 0, NoExpiry, TRUE)
Armed3 == BreakpointConfig("bp3", "other.ts", 7, "funcA", "labelX", 0, 0, NoExpiry, TRUE)

ConfigPool == {Armed1, Disabled1, Exhausted1, Expiring1, NoLabel2, Armed3}

RECURSIVE SeqsUpTo(_, _)
SeqsUpTo(S, n) ==
    IF n = 0 THEN {<<>>}
    ELSE LET shorter == SeqsUpTo(S, n - 1)
         IN  shorter \cup {Append(s, x) : s \in {q \in shorter : Len(q) = n - 1}, x \in S}

\* The breakpoint lists a sync fetch may return: every breakpoint id at
\* most once per list.
SyncLists ==
    {l \in SeqsUpTo(ConfigPool, MaxList) :
        \A i, j \in 1..Len(l) : i # j => l[i].id # l[j].id}

\* The result of parseStackTrace: the caller, or null.
NoCaller == [file |-> "", line |-> 0, functionName |-> ""]
CallerA == [file |-> "file.ts", line |-> 42, functionName |-> "funcA"]
CallerB == [file |-> "other.ts", line |-> 7, functionName |-> "funcA"]
Callers == {CallerA, CallerB}
Labels == {"labelX"}

\* The variables maps passed to capture, as Object.entries lists them.  A
\* name is its sequence of characters; a value records its typeof, whether
\* JSON.stringify accepts it and, if so, the characters JSON.stringify
\* returns.  StringValue is for strings that need no escaping.
StringValue(chars) ==
    [type |-> "string", serializable |-> TRUE,
     json |-> <<"\"">> \o chars \o <<"\"">>]
PlainValue == StringValue(<<"4", "2">>)
CircularValue == [type |-> "object", serializable |-> FALSE, json |-> <<>>]
VarMaps ==
    {<<[name |-> <<"u", "s", "e", "r", "I", "d">>, value |-> PlainValue]>>,
     <<[name |-> <<"r", "e", "q">>, value |-> CircularValue]>>,
     <<[name |-> <<"a", "p", "i", "K", "e", "y">>, value |-> CircularValue]>>}

\* The entries the redaction scan is run on: names that contain a
\* sensitive term in lower, upper and mixed case or inside a longer word,
\* names that contain none, and values that match a value pattern, match
\* none, or cannot be serialized.
MaxVars == 2
EntryPool ==
    {[name |-> <<"p", "a", "s", "s", "w", "o", "r", "d">>, value |-> StringValue(<<"s", "3", "c", "r", "3", "t", "!">>)],
     [name |-> <<"A", "P", "I", "_", "K", "E", "Y">>, value |-> StringValue(<<"p", "w", "d", "=", "h", "u", "n", "t", "e", "r", "2", "2">>)],
     [name |-> <<"a", "u", "t", "h", "T", "o", "k", "e", "n">>, value |-> CircularValue],
     [name |-> <<"m", "o", "n", "k", "e", "y">>, value |-> StringValue(<<"b", "a", "n", "a", "n", "a">>)],
     [name |-> <<"u", "s", "e", "r", "I", "d">>, value |-> PlainValue],
     [name |-> <<"n", "o", "t", "e">>, value |-> StringValue(<<"p", "w", "d", "=", "h", "u", "n", "t", "e", "r", "2", "2">>)],
     [name |-> <<"c", "a", "r", "d">>, value |-> StringValue(<<"4", "1", "1", "1", "1", "1", "1", "1", "1", "1", "1", "1", "1", "1", "1", "1">>)],
     [name |-> <<"r", "e", "q">>, value |-> CircularValue],
     [name |-> <<"m", "e", "m", "o">>,
      value |-> StringValue(<<"p", "w", "d", "=", "4", "1", "1", "1", "1", "1", "1", "1", "1", "1", "1", "1", "1", "1", "1", "1">>)],
     [name |-> <<"n", "o", "t", "e">>,
      value |-> StringValue(<<"t", "o", "k", "e", "n", "=", "A", "A", "A", "A", "A", "A", "A", "A", "A", "A", "A", "A", "A", "A", "A", "A", "A", "A", "A", "A", "1", "2", "3", "4">>)]}
ScanInputs ==
    {l \in SeqsUpTo(EntryPool, MaxVars) :
        \A i, j \in 1..Len(l) : i # j => l[i].name # l[j].name}

VARIABLES
    breakpointsCache,   \* Map<string, BreakpointConfig>
    registrationCache,  \* Set<string>
    pollInterval,       \* the timer start() stored last, or NoTimer
    lastFetch,          \* time of the last successful sync, or NoDate
    timers,             \* interval timers that are armed in the event loop
    nextTimer,          \* number of timers allocated so far
    syncInflight,       \* sync fetches awaiting their response
    now,                \* the clock
    pending,            \* bag of the capture calls suspended at an await
    registerRequests,   \* auto-register requests sent per call site while no
                        \* sync has completed yet (0 once one has)
    emptied,            \* keys that were armed when a sync returning the empty
                        \* list replaced the cache, not seeded again since;
                        \* {} once a sync returns a non-empty list
    lastOp,             \* the operation that produced the current state
    scanInput,          \* the variables a scanForSecurityIssues call is given
    scanResult,         \* what that call returned, once it has run
    stack,              \* the lines of new Error().stack in a capture call
    located,            \* what parseStackTrace returned for it, once it has run
    urlCall,            \* the arguments of a resolveEndpoint/extractBaseURL call
    urlResult,          \* what the call returned, once it has run
    data,               \* MetricsBuffer: number of buffered data points
    flushTimer,         \* MetricsBuffer: the timeout stored last, or NoTimer
    flushTimers,        \* MetricsBuffer: flush timeouts armed in the event loop
    isShuttingDown,     \* MetricsBuffer: shutdown() has been called
    exportsInflight,    \* MetricsBuffer: exporter.export calls not yet settled
    shutdownPromise,    \* MetricsBuffer: the promise of the first shutdown()
    metricsOp,          \* the MetricsBuffer operation that ran last
    batchedSpans,       \* LocalUISpanProcessor: number of spans in the batch
    batchTimer,         \* LocalUISpanProcessor: the timeout stored, or NoTimer
    batchTimers,        \* LocalUISpanProcessor: batch timeouts armed in the event loop
    checkedHealth,      \* LocalUISpanProcessor: a health check has completed
    localUIAvailable,   \* LocalUISpanProcessor: what the last health check found
    flushing,           \* LocalUISpanProcessor: flushBatch calls at their await
    uiOp,               \* the LocalUISpanProcessor operation that ran last
    fetches,            \* SyncSpec: the sync fetches in flight, by issue number
    issued,             \* SyncSpec: number of sync fetches issued so far
    installed,          \* SyncSpec: issue number of the fetch whose response
                        \* filled the cache last, 0 if none has
    handedOver          \* BudgetSpec: per breakpoint id, the snapshots handed
                        \* to the transport under a config with a budget

scanVars == <<scanInput, scanResult>>
locateVars == <<stack, located>>
urlVars == <<urlCall, urlResult>>
metricsVars == <<data, flushTimer, flushTimers, isShuttingDown,
                 exportsInflight, shutdownPromise, metricsOp>>

localUIVars == <<batchedSpans, batchTimer, batchTimers, checkedHealth,
                 localUIAvailable, flushing, uiOp>>

syncVars == <<fetches, issued, installed>>

\* The variables the snapshot client's own steps leave alone.
helperVars == <<scanVars, locateVars, urlVars, metricsVars, localUIVars,
                syncVars, handedOver>>

vars == <<breakpointsCache, registrationCache, pollInterval, lastFetch,
          timers, nextTimer, syncInflight, now, pending, registerRequests,
          emptied, lastOp, scanInput, scanResult, stack, located, urlCall,
          urlResult, data, flushTimer, flushTimers, isShuttingDown,
          exportsInflight, shutdownPromise, metricsOp, batchedSpans,
          batchTimer, batchTimers, checkedHealth, localUIAvailable, flushing,
          uiOp, fetches, issued, installed, handedOver>>

(***************************************************************************)
(* Map and key helpers.                                                    *)
(***************************************************************************)
EmptyMap == [k \in {} |-> NoConfig]

\* Map.prototype.set
MapSet(m, k, v) == [x \in DOMAIN m \cup {k} |-> IF x = k THEN v ELSE m[x]]

\* Map.prototype.get, undefined being NoConfig
MapGet(m, k) == IF k \in DOMAIN m THEN m[k] ELSE NoConfig

\* `${bp.function_name}:${bp.label}`
LabelKey(fn, label) == fn \o ":" \o label

\* `${bp.file_path}:${bp.line_number}`
LineKey(file, line) == file \o ":" \o ToString(line)

\* JavaScript truthiness of a string
Truthy(s) == s # ""

(***************************************************************************)
(* updateBreakpointCache: clear the map, then set the keys of each         *)
(* breakpoint in list order.                                               *)
(***************************************************************************)
\* Variant: the file:line key is kept when it is already set.
SetBreakpointKeysFirstWins(m, bp) ==
    LET withLabel ==
            IF Truthy(bp.label) /\ Truthy(bp.function_name)
            THEN MapSet(m, LabelKey(bp.function_name, bp.label), bp)
            ELSE m
        lineKey == LineKey(bp.file_path, bp.line_number)
    IN  IF lineKey \in DOMAIN withLabel THEN withLabel
        ELSE MapSet(withLabel, lineKey, bp)

\* Variant: the file:line key is set only for a breakpoint without label key.
SetBreakpointKeysElse(m, bp) ==
    IF Truthy(bp.label) /\ Truthy(bp.function_name)
    THEN MapSet(m, LabelKey(bp.function_name, bp.label), bp)
    ELSE MapSet(m, LineKey(bp.file_path, bp.line_number), bp)

SetBreakpointKeys(m, bp) ==
    LET withLabel ==
            IF Truthy(bp.label) /\ Truthy(bp.function_name)
            THEN MapSet(m, LabelKey(bp.function_name, bp.label), bp)
            ELSE m
    IN  MapSet(withLabel, LineKey(bp.file_path, bp.line_number), bp)

RECURSIVE FillCache(_, _, _)
FillCache(m, breakpoints, i) ==
    IF i > Len(breakpoints) THEN m
    ELSE FillCache(SetBreakpointKeys(m, breakpoints[i]), breakpoints, i + 1)

\* Variant: the map is not cleared (the list is merged into it).
updateBreakpointCacheMerge(cache, breakpoints) == FillCache(cache, breakpoints, 1)

\* Variant: the map is cleared only when the list is not empty.
updateBreakpointCacheKeepOnEmpty(cache, breakpoints) ==
    IF breakpoints = <<>> THEN cache ELSE FillCache(EmptyMap, breakpoints, 1)

\* Variant: the replace is left half done, cleared and refilled with all
\* but the last fetched config.
updateBreakpointCacheTorn(cache, breakpoints) ==
    IF breakpoints = <<>> THEN EmptyMap
    ELSE FillCache(EmptyMap, SubSeq(breakpoints, 1, Len(breakpoints) - 1), 1)

updateBreakpointCache(cache, breakpoints) == FillCache(EmptyMap, breakpoints, 1)

(***************************************************************************)
(* The policy checks of checkAndCaptureWithContext.                        *)
(***************************************************************************)
\* `new Date() > expire_at`: the Date converts to its epoch number; a
\* number compares numerically, a string converts to NaN and every
\* comparison with NaN is false.
DateGreaterThan(t, expire) ==
    CASE expire.kind = "number" -> t > expire.t
      [] expire.kind = "string" -> FALSE
      [] OTHER -> FALSE

\* `breakpoint.expire_at && new Date() > breakpoint.expire_at`
ExpirationCheck(bp, t) ==
    /\ CASE bp.expire_at.kind = "number" -> bp.expire_at.t # 0
         [] bp.expire_at.kind = "string" -> TRUE
         [] OTHER -> FALSE
    /\ DateGreaterThan(t, bp.expire_at)

\* Variant: `>` in place of `>=`.
MaxCapturesCheckStrict(bp) ==
    bp.max_captures > 0 /\ bp.capture_count > bp.max_captures

\* `max_captures > 0 && capture_count >= max_captures`
MaxCapturesCheck(bp) ==
    bp.max_captures > 0 /\ bp.capture_count >= bp.max_captures

\* Variant: the enabled flag is not consulted.
NotActiveIgnoreEnabled(bp) == bp = NoConfig

\* `!breakpoint || !breakpoint.enabled`
NotActive(bp) == bp = NoConfig \/ ~bp.enabled

\* The keys whose cached config is armed: present and enabled.
ArmedKeys(cache) == {k \in DOMAIN cache : cache[k].enabled}

(***************************************************************************)
(* scanForSecurityIssues and sanitizeVariables.                            *)
(***************************************************************************)
LowerLetters == <<"a", "b", "c", "d", "e", "f", "g", "h", "i", "j", "k", "l", "m", "n", "o", "p", "q", "r", "s", "t", "u", "v", "w", "x", "y", "z">>
UpperLetters == <<"A", "B", "C", "D", "E", "F", "G", "H", "I", "J", "K", "L", "M", "N", "O", "P", "Q", "R", "S", "T", "U", "V", "W", "X", "Y", "Z">>
Digits == {"0", "1", "2", "3", "4", "5", "6", "7", "8", "9"}

\* toLowerCase on the letters A-Z
ToLower ==
    [c \in {UpperLetters[i] : i \in 1..26} |->
        LowerLetters[CHOOSE i \in 1..26 : UpperLetters[i] = c]]

Lower(c) == IF c \in DOMAIN ToLower THEN ToLower[c] ELSE c

LowerAll(s) == [i \in 1..Len(s) |-> Lower(s[i])]

Contains(s, sub) ==
    \E i \in 1..(Len(s) - Len(sub) + 1) : SubSeq(s, i, i + Len(sub) - 1) = sub

SensitiveTerms ==
    {<<"p", "a", "s", "s", "w", "o", "r", "d">>,
     <<"s", "e", "c", "r", "e", "t">>,
     <<"t", "o", "k", "e", "n">>,
     <<"k", "e", "y">>,
     <<"c", "r", "e", "d", "e", "n", "t", "i", "a", "l">>}

\* /password|secret|token|key|credential/i.test(name)
SensitiveName(name) == \E term \in SensitiveTerms : Contains(LowerAll(name), term)

\* The string `[typeof value]` and the string '[REDACTED]'.
TypeChars(type) ==
    CASE type = "object" -> <<"o", "b", "j", "e", "c", "t">>
      [] type = "function" -> <<"f", "u", "n", "c", "t", "i", "o", "n">>
      [] OTHER -> <<"u", "n", "d", "e", "f", "i", "n", "e", "d">>
Placeholder(type) == StringValue(<<"[">> \o TypeChars(type) \o <<"]">>)
Redacted == StringValue(<<"[", "R", "E", "D", "A", "C", "T", "E", "D", "]">>)

\* sanitizeVariables: a value JSON.stringify rejects becomes `[typeof]`
sanitizeVariables(variables) ==
    [i \in 1..Len(variables) |->
        [name |-> variables[i].name,
         value |-> IF variables[i].value.serializable
                   THEN variables[i].value
                   ELSE Placeholder(variables[i].value.type)]]

(***************************************************************************)
(* Regular expressions, as far as sensitivePatterns uses them.  A pattern  *)
(* is a tree; Ends(re, s, i) is the set of positions a match of re that    *)
(* starts at position i of s can end before, so RegExp.test is "some       *)
(* start has an end".                                                      *)
(***************************************************************************)
Letters == {LowerLetters[i] : i \in 1..26} \cup {UpperLetters[i] : i \in 1..26}
WordChars == Letters \cup Digits \cup {"_"}
Space == {" ", "\t", "\n", "\r"}
Quotes == {"\"", "'"}
TokenChars == Letters \cup Digits \cup {"_", "-"}

AnyCase(c) == {c} \cup {d \in Letters : Lower(d) = Lower(c)}

Chars(set) == [k |-> "set", chars |-> set]
NotChars(set) == [k |-> "nset", chars |-> set]
Cat(parts) == [k |-> "seq", parts |-> parts]
Alt(parts) == [k |-> "alt", parts |-> parts]
\* part{lo,hi}; hi = -1 is "no upper limit"
Rep(part, lo, hi) == [k |-> "rep", part |-> part, lo |-> lo, hi |-> hi]
WordBoundary == [k |-> "wb"]
Lit(str) == Cat([i \in 1..Len(str) |-> Chars({str[i]})])
LitI(str) == Cat([i \in 1..Len(str) |-> Chars(AnyCase(str[i]))])

IsWordAt(s, i) == i >= 1 /\ i <= Len(s) /\ s[i] \in WordChars

RECURSIVE Ends(_, _, _), SeqEnds(_, _, _, _), RepEnds(_, _, _, _)
Ends(re, s, i) ==
    CASE re.k = "set" -> IF i <= Len(s) /\ s[i] \in re.chars THEN {i + 1} ELSE {}
      [] re.k = "nset" -> IF i <= Len(s) /\ s[i] \notin re.chars THEN {i + 1} ELSE {}
      [] re.k = "wb" -> IF IsWordAt(s, i - 1) # IsWordAt(s, i) THEN {i} ELSE {}
      [] re.k = "seq" -> SeqEnds(re.parts, s, {i}, 1)
      [] re.k = "alt" -> UNION {Ends(re.parts[n], s, i) : n \in 1..Len(re.parts)}
      [] re.k = "rep" -> RepEnds(re, s, {i}, 0)

\* from: the positions reached before part n of a concatenation
SeqEnds(parts, s, from, n) ==
    IF n > Len(parts) \/ from = {} THEN from
    ELSE SeqEnds(parts, s, UNION {Ends(parts[n], s, i) : i \in from}, n + 1)

\* from: the positions reached after n repetitions
RepEnds(re, s, from, n) ==
    (IF n >= re.lo THEN from ELSE {})
        \cup (IF from = {} \/ n = re.hi THEN {}
              ELSE RepEnds(re, s, UNION {Ends(re.part, s, i) : i \in from}, n + 1))

\* pattern.test(s)
Test(re, s) == \E i \in 1..(Len(s) + 1) : Ends(re, s, i) # {}

\* `\s*[=:]\s*["']?`
Assign == Cat(<<Rep(Chars(Space), 0, -1), Chars({"=", ":"}),
                Rep(Chars(Space), 0, -1), Rep(Chars(Quotes), 0, 1)>>)

\* sensitivePatterns (lines 305-310), in the order Object.entries lists them
sensitivePatterns ==
    <<[type |-> "password",
       pattern |-> Cat(<<Alt(<<LitI(<<"p", "a", "s", "s", "w", "o", "r", "d">>), LitI(<<"p", "a", "s", "s", "w", "d">>), LitI(<<"p", "w", "d">>)>>),
                         Assign,
                         Rep(NotChars(Space \cup Quotes), 6, -1)>>)],
      [type |-> "api_key",
       pattern |-> Cat(<<Alt(<<Cat(<<LitI(<<"a", "p", "i">>), Rep(Chars({"_", "-"}), 0, 1), LitI(<<"k", "e", "y">>)>>),
                               LitI(<<"a", "p", "i", "k", "e", "y">>)>>),
                         Assign,
                         Rep(Chars(TokenChars), 20, -1)>>)],
      [type |-> "jwt",
       pattern |-> Cat(<<Lit(<<"e", "y", "J">>), Rep(Chars(TokenChars), 0, -1), Chars({"."}),
                         Lit(<<"e", "y", "J">>), Rep(Chars(TokenChars), 0, -1), Chars({"."}),
                         Rep(Chars(TokenChars), 0, -1)>>)],
      [type |-> "credit_card",
       pattern |-> Cat(<<WordBoundary,
                         Alt(<<Cat(<<Chars({"4"}), Rep(Chars(Digits), 12, 12),
                                     Rep(Rep(Chars(Digits), 3, 3), 0, 1)>>),
                               Cat(<<Chars({"5"}), Chars({"1", "2", "3", "4", "5"}),
                                     Rep(Chars(Digits), 14, 14)>>)>>),
                         WordBoundary>>)]>>

\* The first pattern that matches the serialized value, or 0.
FirstPattern(serialized) ==
    IF \E n \in 1..Len(sensitivePatterns) : Test(sensitivePatterns[n].pattern, serialized)
    THEN CHOOSE n \in 1..Len(sensitivePatterns) :
             /\ Test(sensitivePatterns[n].pattern, serialized)
             /\ \A m \in 1..(n - 1) : ~Test(sensitivePatterns[m].pattern, serialized)
    ELSE 0

RECURSIVE Flatten(_)
Flatten(seqs) == IF seqs = <<>> THEN <<>> ELSE Head(seqs) \o Flatten(Tail(seqs))

SecurityFlag(type, severity, name) ==
    [type |-> type, severity |-> severity, variable |-> name]

\* Variant: the name check does not `continue`, the value is scanned too.
ScanEntryNoContinue(entry) ==
    LET nameFlags == IF SensitiveName(entry.name)
                     THEN <<SecurityFlag("sensitive_variable_name", "medium", entry.name)>>
                     ELSE <<>>
        hit == IF entry.value.serializable THEN FirstPattern(entry.value.json) ELSE 0
    IN  [threw |-> ~entry.value.serializable,
         flags |-> IF hit = 0 THEN nameFlags
                   ELSE Append(nameFlags,
                               SecurityFlag("sensitive_data_" \o sensitivePatterns[hit].type,
                                            "high", entry.name))]

\* Variant: the pattern loop does not `break`, every matching pattern
\* pushes a flag.
ScanEntryNoBreak(entry) ==
    IF SensitiveName(entry.name)
    THEN [threw |-> FALSE,
          flags |-> <<SecurityFlag("sensitive_variable_name", "medium", entry.name)>>]
    ELSE IF ~entry.value.serializable
    THEN [threw |-> TRUE, flags |-> <<>>]
    ELSE [threw |-> FALSE,
          flags |->
              Flatten([n \in 1..Len(sensitivePatterns) |->
                          IF Test(sensitivePatterns[n].pattern, entry.value.json)
                          THEN <<SecurityFlag("sensitive_data_" \o sensitivePatterns[n].type,
                                              "high", entry.name)>>
                          ELSE <<>>])]

\* One iteration of the loop of scanForSecurityIssues (lines 316-341): the
\* flags it pushes and whether JSON.stringify(value) throws in it.  An
\* iteration that pushes a flag also redacts the variable.
ScanEntry(entry) ==
    IF SensitiveName(entry.name)
    THEN [threw |-> FALSE,
          flags |-> <<SecurityFlag("sensitive_variable_name", "medium", entry.name)>>]
    ELSE IF ~entry.value.serializable
    THEN [threw |-> TRUE, flags |-> <<>>]
    ELSE LET hit == FirstPattern(entry.value.json)
         IN  [threw |-> FALSE,
              flags |-> IF hit = 0 THEN <<>>
                        ELSE <<SecurityFlag("sensitive_data_" \o sensitivePatterns[hit].type,
                                            "high", entry.name)>>]

\* scanForSecurityIssues(variables): what it returns, or that it threw.
NotScanned == [done |-> FALSE, threw |-> FALSE, variables |-> <<>>, flags |-> <<>>]
scanForSecurityIssues(variables) ==
    LET sanitized == sanitizeVariables(variables)
        scanned == [i \in 1..Len(variables) |-> ScanEntry(variables[i])]
    IN  IF \E i \in 1..Len(variables) : scanned[i].threw
        THEN [done |-> TRUE, threw |-> TRUE, variables |-> <<>>, flags |-> <<>>]
        ELSE [done |-> TRUE, threw |-> FALSE,
              variables |->
                  [i \in 1..Len(variables) |->
                      [name |-> variables[i].name,
                       value |-> IF scanned[i].flags # <<>> THEN Redacted
                                 ELSE sanitized[i].value]],
              flags |-> Flatten([i \in 1..Len(variables) |-> scanned[i].flags])]

\* The loop of scanForSecurityIssues runs over the ORIGINAL values: a
\* variable with a sensitive name is skipped before JSON.stringify(value),
\* any other variable is serialized outside every try block, so a value
\* JSON.stringify rejects makes the scan throw.
ScanThrows(variables) ==
    \E i \in 1..Len(variables) :
        /\ ~SensitiveName(variables[i].name)
        /\ ~variables[i].value.serializable

(***************************************************************************)
(* parseStackTrace.  A stack is the sequence of the lines of               *)
(* new Error().stack; a line is the "Error" header or a frame, and a frame *)
(* records which module it belongs to and the format it is printed in:     *)
(*   "named"    at functionName (file:line:col)                            *)
(*   "bare"     at file:line:col                                           *)
(*   "opaque"   a line the pattern of line 168 does not match, such as     *)
(*              at process.processTicksAndRejections (node:internal/...)   *)
(***************************************************************************)
MaxFrames == 3

Frame(engine, kind, functionName, file, line) ==
    [engine |-> engine, kind |-> kind, functionName |-> functionName,
     file |-> file, line |-> line]

ErrorLine == Frame(TRUE, "header", "", "", 0)
GateFrame ==
    Frame(TRUE, "named", "SnapshotClient.checkAndCaptureWithContext",
          "snapshot-client.js", 80)
WrapperFrame ==
    Frame(TRUE, "named", "TracekitClient.captureSnapshot", "client.js", 622)

\* Frames of the application and of what runs it.
OuterFrames ==
    {Frame(FALSE, "named", "PaymentService.processPayment", "payment.service.ts", 12),
     Frame(FALSE, "named", "OrderController.create", "order.controller.ts", 30),
     Frame(FALSE, "bare", "", "handler.js", 5),
     Frame(FALSE, "opaque", "", "", 0)}

\* new Error().stack at line 80, for a call through the wrapper and for a
\* direct call: the engine's frames, then the call site and its callers.
Stacks ==
    {<<ErrorLine, GateFrame>> \o entry \o outer :
        entry \in {<<WrapperFrame>>, <<>>},
        outer \in SeqsUpTo(OuterFrames, MaxFrames) \ {<<>>}}

\* callerLine.match(...) and lines 170-178
ParseLine(frame) ==
    CASE frame.kind = "named" ->
             [file |-> frame.file, line |-> frame.line,
              functionName |-> frame.functionName]
      [] frame.kind = "bare" ->
             [file |-> frame.file, line |-> frame.line,
              functionName |-> "anonymous"]
      [] OTHER -> NoCaller

\* parseStackTrace(stack): lines[3], parsed, or null (NoCaller).  lines[0]
\* is the first element of the sequence.
parseStackTrace(lines) ==
    IF Len(lines) < 4 THEN NoCaller ELSE ParseLine(lines[4])

NotLocated == [done |-> FALSE, caller |-> NoCaller]

(***************************************************************************)
(* resolveEndpoint and extractBaseURL (client.ts).  Strings are sequences  *)
(* of characters.                                                          *)
(***************************************************************************)
Http == <<"h", "t", "t", "p", ":", "/", "/">>
Https == <<"h", "t", "t", "p", "s", ":", "/", "/">>

\* s.startsWith(prefix)
StartsWith(str, prefix) ==
    Len(str) >= Len(prefix) /\ SubSeq(str, 1, Len(prefix)) = prefix

\* s.substring(n), n counted from 0
Substring(str, n) == SubSeq(str, n + 1, Len(str))

\* s.indexOf("/"), counted from 0; -1 when there is none
IndexOfSlash(str) ==
    IF \E i \in 1..Len(str) : str[i] = "/"
    THEN (CHOOSE i \in 1..Len(str) :
              str[i] = "/" /\ \A j \in 1..(i - 1) : str[j] # "/") - 1
    ELSE -1

\* s.replace(/\/$/, '')
RemoveTrailingSlash(str) ==
    IF str # <<>> /\ str[Len(str)] = "/" THEN SubSeq(str, 1, Len(str) - 1) ELSE str

\* s.replace(/^https?:\/\//, '')
RemoveScheme(str) ==
    IF StartsWith(str, Https) THEN Substring(str, 8)
    ELSE IF StartsWith(str, Http) THEN Substring(str, 7)
    ELSE str

ServicePaths ==
    {<<"/", "v", "1", "/", "t", "r", "a", "c", "e", "s">>, <<"/", "v", "1", "/", "m", "e", "t", "r", "i", "c", "s">>,
     <<"/", "a", "p", "i", "/", "v", "1", "/", "t", "r", "a", "c", "e", "s">>,
     <<"/", "a", "p", "i", "/", "v", "1", "/", "m", "e", "t", "r", "i", "c", "s">>}

\* Variant: the base is extracted from every URL, service path or not.
extractBaseURLAlways(fullURL) ==
    LET scheme == IF StartsWith(fullURL, Https) THEN Https
                  ELSE IF StartsWith(fullURL, Http) THEN Http
                  ELSE <<>>
        remaining == Substring(fullURL, Len(scheme))
        idx == IndexOfSlash(remaining)
    IN  IF scheme = <<>> THEN fullURL
        ELSE IF idx # -1 THEN scheme \o SubSeq(remaining, 1, idx)
        ELSE scheme \o remaining

\* extractBaseURL(fullURL), lines 308-342
extractBaseURL(fullURL) ==
    LET hasServicePath == \E sp \in ServicePaths : Contains(fullURL, sp)
        scheme == IF StartsWith(fullURL, Https) THEN Https
                  ELSE IF StartsWith(fullURL, Http) THEN Http
                  ELSE <<>>
        remaining == Substring(fullURL, Len(scheme))
        idx == IndexOfSlash(remaining)
    IN  IF ~hasServicePath THEN fullURL
        ELSE IF scheme = <<>> THEN fullURL
        ELSE IF idx # -1 THEN scheme \o SubSeq(remaining, 1, idx)
        ELSE scheme \o remaining

\* Variant: the endpoint is used with its trailing slash.
resolveEndpointKeepSlash(endpoint, path, useSSL) ==
    IF StartsWith(endpoint, Http) \/ StartsWith(endpoint, Https)
    THEN IF Contains(RemoveScheme(endpoint), <<"/">>)
         THEN extractBaseURL(endpoint) \o path
         ELSE endpoint \o path
    ELSE (IF useSSL THEN Https ELSE Http) \o endpoint \o path

\* resolveEndpoint(endpoint, path, useSSL), lines 277-302
resolveEndpoint(endpoint, path, useSSL) ==
    IF StartsWith(endpoint, Http) \/ StartsWith(endpoint, Https)
    THEN LET stripped == RemoveTrailingSlash(endpoint)
             trimmed == RemoveScheme(stripped)
         IN  IF Contains(trimmed, <<"/">>)
             THEN LET base == extractBaseURL(stripped)
                  IN  IF path = <<>> THEN base ELSE base \o path
             ELSE stripped \o path
    ELSE (IF useSSL THEN Https ELSE Http) \o RemoveTrailingSlash(endpoint) \o path

\* The calls: an endpoint is an optional scheme, a host, an optional path
\* and an optional trailing slash; the requested path is empty (the
\* snapshot base URL) or a default service path.
UrlHosts == {<<"l", "o", "c", "a", "l", "h", "o", "s", "t", ":", "8", "0", "8", "1">>, <<"a", "p", "p", ".", "t", "r", "a", "c", "e", "k", "i", "t", ".", "d", "e", "v">>}
UrlPaths ==
    ServicePaths \cup {<<>>, <<"/", "c", "u", "s", "t", "o", "m", "/", "p", "a", "t", "h">>, <<"/", "a", "p", "i", "/", "v", "2">>, <<"/", "c", "u", "s", "t", "o", "m">>}
UrlCalls ==
    [scheme : {<<>>, Http, Https}, host : UrlHosts, epath : UrlPaths,
     slash : {<<>>, <<"/">>},
     path : {<<>>, <<"/", "v", "1", "/", "t", "r", "a", "c", "e", "s">>, <<"/", "v", "1", "/", "m", "e", "t", "r", "i", "c", "s">>},
     useSSL : BOOLEAN]
Endpoint(call) == call.scheme \o call.host \o call.epath \o call.slash

NoUrlCall ==
    [scheme |-> <<>>, host |-> <<>>, epath |-> <<>>, slash |-> <<>>,
     path |-> <<>>, useSSL |-> TRUE]
NotResolved == [done |-> FALSE, fn |-> "", value |-> <<>>]

(***************************************************************************)
(* Capture calls.  A call suspended at an await is a continuation in the   *)
(* bag `pending`: pc "registering" awaits the auto-register fetch, pc      *)
(* "shipping" awaits the capture fetch.  The outcome of the step a call    *)
(* has just run is recorded in lastOp:                                     *)
(*   "registering"  an auto-register request was sent, the call awaits it  *)
(*   "shipping"     a snapshot was handed to the transport                 *)
(*   "skipped"      the promise resolved, no snapshot was built            *)
(*   "returned"     the promise resolved after the capture fetch settled   *)
(*   "rejected"     the promise rejected                                   *)
(***************************************************************************)
NoCall == [caller |-> NoCaller, label |-> ""]

Call(caller, label, variables) ==
    [caller |-> caller, label |-> label, variables |-> variables]

Continuation(pc, call) ==
    [pc |-> pc, caller |-> call.caller, label |-> call.label,
     variables |-> IF pc = "registering" THEN call.variables ELSE <<>>]

CallOf(k) == Call(k.caller, k.label, k.variables)

CallSite(call) == <<call.caller, call.label>>

\* What lastOp keeps of a call: its caller and its label.
Site(call) == [caller |-> call.caller, label |-> call.label]

CallSites == Callers \X Labels

Op(name, call, outcome, list) ==
    [op |-> name, call |-> call, outcome |-> outcome, list |-> list]

\* Variant: the key also names the file of the call site.
LocationKeyWithFile(call) ==
    LabelKey(call.caller.file \o ":" \o call.caller.functionName, call.label)

\* locationKey of a call
LocationKey(call) == LabelKey(call.caller.functionName, call.label)

\* Lines 109-147: look the config up, apply the policy checks, scan the
\* variables, build the snapshot and issue the capture fetch.  Runs without
\* an await in between, so it is one step; the result is its outcome.
CheckAndShip(call, cache, t) ==
    LET breakpoint == MapGet(cache, LocationKey(call))
    IN  IF NotActive(breakpoint) THEN "skipped"
        ELSE IF ExpirationCheck(breakpoint, t) THEN "skipped"
        ELSE IF MaxCapturesCheck(breakpoint) THEN "skipped"
        ELSE IF ScanThrows(call.variables) THEN "rejected"
        ELSE "shipping"

\* The continuation a step leaves suspended, given its outcome.
Suspend(bag, call, outcome) ==
    IF outcome \in {"registering", "shipping"}
    THEN bag (+) SetToBag({Continuation(outcome, call)})
    ELSE bag

Resume(bag, k) == bag (-) SetToBag({k})

(***************************************************************************)
(* History of the sync fetches and of the snapshots handed over.  The      *)
(* client keeps none of it; SyncSpec numbers the fetches in the order      *)
(* fetchActiveBreakpoints issues them, BudgetSpec counts the calls of      *)
(* captureSnapshot.  The other specifications leave both untracked.        *)
(***************************************************************************)
MaxIssued == 3     \* sync fetches issued in a behaviour of SyncSpec
MaxHanded == 4     \* snapshots counted per breakpoint in BudgetSpec

BreakpointIds == {bp.id : bp \in ConfigPool}

NoFetchesTracked ==
    /\ fetches = {}
    /\ issued = 0
    /\ installed = 0

NoneHanded == handedOver = [id \in BreakpointIds |-> 0]

(***************************************************************************)
(* LocalUISpanProcessor (client.ts), with NODE_ENV = 'development'.  Spans *)
(* are opaque to the processor, so batchedSpans is their number.  A        *)
(* flushBatch call suspended at `await this.detectLocalUI()` is counted in *)
(* `flushing`: under request, when detectLocalUI sent a health request and *)
(* waits for its outcome; under available or unavailable, when it returned *)
(* the cached answer and the call resumes in a later microtask.            *)
(***************************************************************************)
MAX_BATCH_SIZE == 100
MaxBatched == 102      \* spans in the batch
MaxFlushing == 2       \* flushBatch calls suspended at one time
MaxBatchTimers == 2    \* timeout handles

NoFlushing == [request |-> 0, available |-> 0, unavailable |-> 0]

\* What uiOp records of a step: the operation and the number of spans it
\* handed to sendToLocalUI (0 if none).
UiOp(name, sent) == [op |-> name, sent |-> sent]

\* A LocalUISpanProcessor as its field initializers leave it (lines 28-35).
LocalUISpanProcessorNew ==
    /\ batchedSpans = 0
    /\ batchTimer = NoTimer
    /\ batchTimers = {}
    /\ checkedHealth = FALSE
    /\ localUIAvailable = FALSE
    /\ flushing = NoFlushing
    /\ uiOp = UiOp("new", 0)

Suspended(f) == f.request + f.available + f.unavailable

\* detectLocalUI up to its return (lines 37-74): the kind of promise the
\* caller awaits.
detectLocalUI ==
    IF checkedHealth
    THEN IF localUIAvailable THEN "available" ELSE "unavailable"
    ELSE "request"

\* flushBatch up to its await (lines 100-111), for a batch of n spans and
\* with armedTimers the timeouts still armed when it runs: the timer is
\* cleared, and unless the batch is empty the call suspends.  The batch is
\* left as it is.
flushBatch(n, armedTimers) ==
    [batchTimer |-> NoTimer,
     batchTimers |-> armedTimers \ {batchTimer},
     batchedSpans |-> n,
     flushing |-> IF n = 0 THEN flushing
                  ELSE [flushing EXCEPT ![detectLocalUI] = @ + 1]]

LocalUIFrame ==
    UNCHANGED <<breakpointsCache, registrationCache, pollInterval, lastFetch,
                timers, nextTimer, syncInflight, now, pending,
                registerRequests, emptied, lastOp, scanVars, locateVars,
                urlVars, metricsVars, syncVars, handedOver>>

\* onEnd(span), lines 80-98
OnEnd ==
    LET n == batchedSpans + 1
    IN  /\ batchedSpans < MaxBatched
        /\ IF n >= MAX_BATCH_SIZE
           THEN LET f == flushBatch(n, batchTimers)
                IN  /\ Suspended(flushing) < MaxFlushing
                    /\ batchTimer' = f.batchTimer
                    /\ batchTimers' = f.batchTimers
                    /\ batchedSpans' = f.batchedSpans
                    /\ flushing' = f.flushing
           ELSE IF batchTimer = NoTimer
           THEN LET t == CHOOSE h \in 1..MaxBatchTimers : h \notin batchTimers
                IN  /\ batchTimer' = t
                    /\ batchTimers' = batchTimers \cup {t}
                    /\ batchedSpans' = n
                    /\ UNCHANGED flushing
           ELSE /\ batchedSpans' = n
                /\ UNCHANGED <<batchTimer, batchTimers, flushing>>
        /\ uiOp' = UiOp("onEnd", 0)
        /\ UNCHANGED <<checkedHealth, localUIAvailable>>
        /\ LocalUIFrame

\* The callback of a batch timeout (lines 94-96): flushBatch().
BatchTimerFire(t) ==
    /\ t \in batchTimers
    /\ batchedSpans > 0 => Suspended(flushing) < MaxFlushing
    /\ LET f == flushBatch(batchedSpans, batchTimers \ {t})
       IN  /\ batchTimer' = f.batchTimer
           /\ batchTimers' = f.batchTimers
           /\ batchedSpans' = f.batchedSpans
           /\ flushing' = f.flushing
    /\ uiOp' = UiOp("timer", 0)
    /\ UNCHANGED <<checkedHealth, localUIAvailable>>
    /\ LocalUIFrame

\* flushBatch after its await (lines 112-123): the batch as it is now is
\* dropped, or converted and handed to sendToLocalUI, and emptied.
ResumeFlush(isAvailable) ==
    /\ batchedSpans' = 0
    /\ uiOp' = UiOp("flushed", IF isAvailable THEN batchedSpans ELSE 0)

\* A health request settles (lines 48-70): the response, error or timeout
\* handler stores the answer and resolves the promise; the flushBatch call
\* that awaits it resumes.
HealthSettles(isAvailable) ==
    /\ flushing.request > 0
    /\ flushing' = [flushing EXCEPT !.request = @ - 1]
    /\ localUIAvailable' = isAvailable
    /\ checkedHealth' = TRUE
    /\ ResumeFlush(isAvailable)
    /\ UNCHANGED <<batchTimer, batchTimers>>
    /\ LocalUIFrame

\* A flushBatch call that was given the cached answer resumes.
CachedFlushResumes(isAvailable) ==
    LET kind == IF isAvailable THEN "available" ELSE "unavailable"
    IN  /\ flushing[kind] > 0
        /\ flushing' = [flushing EXCEPT ![kind] = @ - 1]
        /\ ResumeFlush(isAvailable)
        /\ UNCHANGED <<batchTimer, batchTimers, checkedHealth, localUIAvailable>>
        /\ LocalUIFrame

NextLocalUI ==
    \/ OnEnd
    \/ \E t \in 1..MaxBatchTimers : BatchTimerFire(t)
    \/ \E isAvailable \in BOOLEAN : HealthSettles(isAvailable)
    \/ \E isAvailable \in BOOLEAN : CachedFlushResumes(isAvailable)

(***************************************************************************)
(* MetricsBuffer (metrics-buffer.ts).  Data points are opaque to the       *)
(* buffer, so `data` is their number.  A flush timeout is a handle in      *)
(* flushTimers until it fires or is cleared.                               *)
(***************************************************************************)
maxSize == 100
MaxFlushTimers == 2
MaxExports == 2

\* What metricsOp records of a step: the operation, the size of the batch
\* it handed to exporter.export (0 if none) and whether it armed a timeout.
MetricsOp(name, handed, armed) == [op |-> name, handed |-> handed, armed |-> armed]

\* A MetricsBuffer as its constructor leaves it (lines 15-24).
MetricsBufferNew ==
    /\ data = 0
    /\ flushTimer = NoTimer
    /\ flushTimers = {}
    /\ isShuttingDown = FALSE
    /\ exportsInflight = 0
    /\ shutdownPromise = "none"
    /\ metricsOp = MetricsOp("new", 0, FALSE)

\* Variant: scheduleFlush without the isShuttingDown test.
scheduleFlushAlways(armedTimers) ==
    LET t == CHOOSE h \in 1..MaxFlushTimers : h \notin armedTimers
    IN  [armed |-> TRUE, flushTimer |-> t, flushTimers |-> armedTimers \cup {t}]

\* scheduleFlush (lines 43-52), with armedTimers the timeouts still armed
\* when it runs: the timeout it stores and the timeouts armed after it.
scheduleFlush(armedTimers) ==
    IF isShuttingDown
    THEN [armed |-> FALSE, flushTimer |-> flushTimer, flushTimers |-> armedTimers]
    ELSE LET t == CHOOSE h \in 1..MaxFlushTimers : h \notin armedTimers
         IN  [armed |-> TRUE, flushTimer |-> t, flushTimers |-> armedTimers \cup {t}]

\* flush (lines 54-68) up to its await, for a buffer of n points: the size
\* of the batch handed to the exporter; the buffer is empty afterwards.
FlushBatch(n) == n

\* A step that flushes n points starts an export unless n = 0.
CanFlush(n) == n = 0 \/ exportsInflight < MaxExports
AfterFlush(n) == IF n = 0 THEN exportsInflight ELSE exportsInflight + 1

MetricsFrame ==
    UNCHANGED <<breakpointsCache, registrationCache, pollInterval, lastFetch,
                timers, nextTimer, syncInflight, now, pending,
                registerRequests, emptied, lastOp, scanVars, locateVars,
                urlVars, localUIVars, syncVars, handedOver>>

\* start(), lines 26-28
MetricsStart ==
    /\ Cardinality(flushTimers) < MaxFlushTimers
    /\ LET s == scheduleFlush(flushTimers)
       IN  /\ flushTimer' = s.flushTimer
           /\ flushTimers' = s.flushTimers
           /\ metricsOp' = MetricsOp("start", 0, s.armed)
    /\ UNCHANGED <<data, isShuttingDown, exportsInflight, shutdownPromise>>
    /\ MetricsFrame

\* Variant: the buffer is flushed when it holds more than maxSize points.
MetricsAddLate ==
    LET n == IF isShuttingDown THEN data ELSE data + 1
        full == ~isShuttingDown /\ n > maxSize
    IN  /\ full => CanFlush(n)
        /\ data' = IF full THEN 0 ELSE n
        /\ exportsInflight' = IF full THEN AfterFlush(n) ELSE exportsInflight
        /\ metricsOp' = MetricsOp("add", IF full THEN FlushBatch(n) ELSE 0, FALSE)
        /\ UNCHANGED <<flushTimer, flushTimers, isShuttingDown, shutdownPromise>>
        /\ MetricsFrame

\* add(dataPoint), lines 30-41
MetricsAdd ==
    LET n == IF isShuttingDown THEN data ELSE data + 1
        full == ~isShuttingDown /\ n >= maxSize
    IN  /\ full => CanFlush(n)
        /\ data' = IF full THEN 0 ELSE n
        /\ exportsInflight' = IF full THEN AfterFlush(n) ELSE exportsInflight
        /\ metricsOp' = MetricsOp("add", IF full THEN FlushBatch(n) ELSE 0, FALSE)
        /\ UNCHANGED <<flushTimer, flushTimers, isShuttingDown, shutdownPromise>>
        /\ MetricsFrame

\* The callback of a flush timeout (lines 48-51): flush(), scheduleFlush().
FlushTimerFire(t) ==
    /\ t \in flushTimers
    /\ CanFlush(data)
    /\ LET s == scheduleFlush(flushTimers \ {t})
       IN  /\ flushTimer' = s.flushTimer
           /\ flushTimers' = s.flushTimers
           /\ metricsOp' = MetricsOp("timer", FlushBatch(data), s.armed)
    /\ data' = 0
    /\ exportsInflight' = AfterFlush(data)
    /\ UNCHANGED <<isShuttingDown, shutdownPromise>>
    /\ MetricsFrame

\* What becomes of the promise of shutdown() when one of the exports in
\* flight settles.  While the promise is pending, one of them is the export
\* of the final flush (line 80): the promise resolves if that is the one
\* that settles, whether it resolved or was caught at line 64.
AfterSettle ==
    IF shutdownPromise = "pending"
    THEN {"resolved"} \cup (IF exportsInflight > 1 THEN {"pending"} ELSE {})
    ELSE {shutdownPromise}

\* exporter.export resolved (line 63).
ExportOk ==
    /\ exportsInflight > 0
    /\ exportsInflight' = exportsInflight - 1
    /\ shutdownPromise' \in AfterSettle
    /\ metricsOp' = MetricsOp("exportOk", 0, FALSE)
    /\ UNCHANGED <<data, flushTimer, flushTimers, isShuttingDown>>
    /\ MetricsFrame

\* Variant: a batch whose export failed is put back into the buffer.
ExportFailRequeue ==
    /\ exportsInflight > 0
    /\ data + 1 < maxSize
    /\ exportsInflight' = exportsInflight - 1
    /\ shutdownPromise' \in AfterSettle
    /\ data' = data + 1
    /\ metricsOp' = MetricsOp("exportFail", 0, FALSE)
    /\ UNCHANGED <<flushTimer, flushTimers, isShuttingDown>>
    /\ MetricsFrame

\* exporter.export rejected: caught and logged (lines 64-67).
ExportFail ==
    /\ exportsInflight > 0
    /\ exportsInflight' = exportsInflight - 1
    /\ shutdownPromise' \in AfterSettle
    /\ metricsOp' = MetricsOp("exportFail", 0, FALSE)
    /\ UNCHANGED <<data, flushTimer, flushTimers, isShuttingDown>>
    /\ MetricsFrame

\* shutdown() up to its await (lines 70-80).  The final flush returns at
\* once when the buffer is empty (line 56), and the promise of shutdown()
\* resolves; otherwise the promise is pending until the export of the final
\* flush settles.  A repeated shutdown() finds the buffer empty.
MetricsShutdown ==
    /\ CanFlush(data)
    /\ isShuttingDown' = TRUE
    /\ flushTimers' = flushTimers \ {flushTimer}
    /\ flushTimer' = NoTimer
    /\ data' = 0
    /\ exportsInflight' = AfterFlush(data)
    /\ shutdownPromise' = IF isShuttingDown THEN shutdownPromise
                          ELSE IF data = 0 THEN "resolved"
                          ELSE "pending"
    /\ metricsOp' = MetricsOp("shutdown", FlushBatch(data), FALSE)
    /\ MetricsFrame

NextMetrics ==
    \/ MetricsStart
    \/ MetricsAdd
    \/ \E t \in 1..MaxFlushTimers : FlushTimerFire(t)
    \/ ExportOk
    \/ ExportFail
    \/ MetricsShutdown

\* A bare snapshot client next to a new MetricsBuffer.
InitMetrics ==
    /\ breakpointsCache = EmptyMap
    /\ registrationCache = {}
    /\ pollInterval = NoTimer
    /\ lastFetch = NoDate
    /\ timers = {}
    /\ nextTimer = 0
    /\ syncInflight = 0
    /\ now = 1
    /\ pending = EmptyBag
    /\ registerRequests = [s \in CallSites |-> 0]
    /\ emptied = {}
    /\ lastOp = Op("init", NoCall, "none", <<>>)
    /\ scanInput = <<>>
    /\ scanResult = NotScanned
    /\ stack = <<>>
    /\ located = NotLocated
    /\ urlCall = NoUrlCall
    /\ urlResult = NotResolved
    /\ MetricsBufferNew
    /\ LocalUISpanProcessorNew
    /\ NoFetchesTracked
    /\ NoneHanded

MetricsSpec == InitMetrics /\ [][NextMetrics]_vars

\* A bare SnapshotClient, as its constructor leaves it.
InitBare ==
    /\ breakpointsCache = EmptyMap
    /\ registrationCache = {}
    /\ pollInterval = NoTimer
    /\ lastFetch = NoDate
    /\ timers = {}
    /\ nextTimer = 0
    /\ syncInflight = 0
    /\ now = 1
    /\ pending = EmptyBag
    /\ registerRequests = [s \in CallSites |-> 0]
    /\ emptied = {}
    /\ lastOp = Op("init", NoCall, "none", <<>>)
    /\ scanInput = <<>>
    /\ scanResult = NotScanned
    /\ stack = <<>>
    /\ located = NotLocated
    /\ urlCall = NoUrlCall
    /\ urlResult = NotResolved
    /\ MetricsBufferNew
    /\ LocalUISpanProcessorNew
    /\ NoFetchesTracked
    /\ NoneHanded

\* The SnapshotClient as the TracekitClient constructor leaves it: start()
\* has run once, the immediate fetch is in flight.
Init ==
    /\ breakpointsCache = EmptyMap
    /\ registrationCache = {}
    /\ pollInterval = 1
    /\ lastFetch = NoDate
    /\ timers = {1}
    /\ nextTimer = 1
    /\ syncInflight = 1
    /\ now = 1
    /\ pending = EmptyBag
    /\ registerRequests = [s \in CallSites |-> 0]
    /\ emptied = {}
    /\ lastOp = Op("init", NoCall, "none", <<>>)
    /\ scanInput = <<>>
    /\ scanResult = NotScanned
    /\ stack = <<>>
    /\ located = NotLocated
    /\ urlCall = NoUrlCall
    /\ urlResult = NotResolved
    /\ MetricsBufferNew
    /\ LocalUISpanProcessorNew
    /\ NoFetchesTracked
    /\ NoneHanded

\* Variant: start() only arms the timer, without the immediate fetch.
StartNoImmediateFetch ==
    /\ nextTimer < MaxTimers
    /\ syncInflight < MaxInflight
    /\ nextTimer' = nextTimer + 1
    /\ timers' = timers \cup {nextTimer + 1}
    /\ pollInterval' = nextTimer + 1
    /\ lastOp' = Op("start", NoCall, "none", <<>>)
    /\ UNCHANGED <<breakpointsCache, registrationCache, lastFetch, now, pending,
                   registerRequests, emptied, syncInflight>>
    /\ UNCHANGED helperVars

\* start(): an immediate fetch, then a new interval timer whose handle
\* overwrites pollInterval.
Start ==
    /\ nextTimer < MaxTimers
    /\ syncInflight < MaxInflight
    /\ syncInflight' = syncInflight + 1
    /\ nextTimer' = nextTimer + 1
    /\ timers' = timers \cup {nextTimer + 1}
    /\ pollInterval' = nextTimer + 1
    /\ lastOp' = Op("start", NoCall, "none", <<>>)
    /\ UNCHANGED <<breakpointsCache, registrationCache, lastFetch, now, pending,
                   registerRequests, emptied>>
    /\ UNCHANGED helperVars

\* stop(): clear the timer pollInterval holds, if any.
Stop ==
    /\ IF pollInterval # NoTimer
       THEN /\ timers' = timers \ {pollInterval}
            /\ pollInterval' = NoTimer
       ELSE UNCHANGED <<timers, pollInterval>>
    /\ lastOp' = Op("stop", NoCall, "none", <<>>)
    /\ UNCHANGED <<breakpointsCache, registrationCache, lastFetch, nextTimer,
                   syncInflight, now, pending, registerRequests, emptied>>
    /\ UNCHANGED helperVars

\* An armed interval timer fires: fetchActiveBreakpoints() issues a fetch.
TimerFire(t) ==
    /\ t \in timers
    /\ syncInflight < MaxInflight
    /\ syncInflight' = syncInflight + 1
    /\ lastOp' = Op("timer", NoCall, "none", <<>>)
    /\ UNCHANGED <<breakpointsCache, registrationCache, pollInterval, lastFetch,
                   timers, nextTimer, now, pending, registerRequests, emptied>>
    /\ UNCHANGED helperVars

\* Variant: a successful sync also drops the registered identities that the
\* fetched list no longer has.
SyncResponseOkPrunes(list) ==
    /\ syncInflight > 0
    /\ syncInflight' = syncInflight - 1
    /\ breakpointsCache' = updateBreakpointCache(breakpointsCache, list)
    /\ registrationCache' = registrationCache \cap DOMAIN breakpointsCache'
    /\ lastFetch' = now
    /\ registerRequests' = [s \in CallSites |-> 0]
    /\ emptied' = IF list = <<>> THEN emptied \cup ArmedKeys(breakpointsCache)
                  ELSE {}
    /\ lastOp' = Op("syncOk", NoCall, "none", list)
    /\ UNCHANGED <<pollInterval, timers, nextTimer, now, pending>>
    /\ UNCHANGED helperVars

\* fetchActiveBreakpoints, response ok: replace the cache, set lastFetch.
SyncResponseOk(list) ==
    /\ syncInflight > 0
    /\ syncInflight' = syncInflight - 1
    /\ breakpointsCache' = updateBreakpointCache(breakpointsCache, list)
    /\ lastFetch' = now
    /\ registerRequests' = [s \in CallSites |-> 0]
    /\ emptied' = IF list = <<>> THEN emptied \cup ArmedKeys(breakpointsCache)
                  ELSE {}
    /\ lastOp' = Op("syncOk", NoCall, "none", list)
    /\ UNCHANGED <<registrationCache, pollInterval, timers, nextTimer, now,
                   pending>>
    /\ UNCHANGED helperVars

\* Variant: a failed fetch clears the cache and the timer.
SyncResponseFailResets ==
    /\ syncInflight > 0
    /\ syncInflight' = syncInflight - 1
    /\ breakpointsCache' = EmptyMap
    /\ timers' = timers \ {pollInterval}
    /\ pollInterval' = NoTimer
    /\ lastOp' = Op("syncFail", NoCall, "none", <<>>)
    /\ UNCHANGED <<registrationCache, lastFetch, nextTimer, now, pending,
                   registerRequests, emptied>>
    /\ UNCHANGED helperVars

\* fetchActiveBreakpoints, fetch rejected or !response.ok: logged only.
SyncResponseFail ==
    /\ syncInflight > 0
    /\ syncInflight' = syncInflight - 1
    /\ lastOp' = Op("syncFail", NoCall, "none", <<>>)
    /\ UNCHANGED <<breakpointsCache, registrationCache, pollInterval, lastFetch,
                   timers, nextTimer, now, pending, registerRequests, emptied>>
    /\ UNCHANGED helperVars

\* Variant: the call goes on to registration when no caller was resolved.
CaptureCallUnlocated(caller, label, variables) ==
    LET call == Call(caller, label, variables)
        outcome ==
            IF LocationKey(call) \notin registrationCache THEN "registering"
            ELSE CheckAndShip(call, breakpointsCache, now)
        counted == outcome = "registering" /\ lastFetch = NoDate /\ caller # NoCaller
    IN  /\ BagCardinality(pending) < MaxPending
        /\ counted => registerRequests[CallSite(call)] < MaxRegister
        /\ pending' = Suspend(pending, call, outcome)
        /\ registerRequests' =
               IF counted
               THEN [registerRequests EXCEPT ![CallSite(call)] = @ + 1]
               ELSE registerRequests
        /\ lastOp' = Op("capture", Site(call), outcome, <<>>)
        /\ UNCHANGED <<breakpointsCache, registrationCache, pollInterval,
                       lastFetch, timers, nextTimer, syncInflight, now, emptied>>
        /\ UNCHANGED helperVars

\* Variant: a capture that ships a snapshot counts it in the cached config.
CaptureCallCounts(caller, label, variables) ==
    LET call == Call(caller, label, variables)
        key == LocationKey(call)
        outcome ==
            IF caller = NoCaller THEN "skipped"
            ELSE IF key \notin registrationCache THEN "registering"
            ELSE CheckAndShip(call, breakpointsCache, now)
    IN  /\ BagCardinality(pending) < MaxPending
        /\ (outcome = "registering" /\ lastFetch = NoDate)
               => registerRequests[CallSite(call)] < MaxRegister
        /\ pending' = Suspend(pending, call, outcome)
        /\ registerRequests' =
               IF outcome = "registering" /\ lastFetch = NoDate
               THEN [registerRequests EXCEPT ![CallSite(call)] = @ + 1]
               ELSE registerRequests
        /\ breakpointsCache' =
               IF outcome = "shipping"
               THEN [breakpointsCache EXCEPT ![key].capture_count = @ + 1]
               ELSE breakpointsCache
        /\ lastOp' = Op("capture", Site(call), outcome, <<>>)
        /\ UNCHANGED <<registrationCache, pollInterval,
                       lastFetch, timers, nextTimer, syncInflight, now, emptied>>
        /\ UNCHANGED helperVars

\* checkAndCaptureWithContext up to its first await (lines 75-107 when the
\* location is not registered, lines 75-147 when it is).
CaptureCall(caller, label, variables) ==
    LET call == Call(caller, label, variables)
        outcome ==
            IF caller = NoCaller THEN "skipped"
            ELSE IF LocationKey(call) \notin registrationCache THEN "registering"
            ELSE CheckAndShip(call, breakpointsCache, now)
    IN  /\ BagCardinality(pending) < MaxPending
        /\ (outcome = "registering" /\ lastFetch = NoDate)
               => registerRequests[CallSite(call)] < MaxRegister
        /\ pending' = Suspend(pending, call, outcome)
        /\ registerRequests' =
               IF outcome = "registering" /\ lastFetch = NoDate
               THEN [registerRequests EXCEPT ![CallSite(call)] = @ + 1]
               ELSE registerRequests
        /\ lastOp' = Op("capture", Site(call), outcome, <<>>)
        /\ UNCHANGED <<breakpointsCache, registrationCache, pollInterval,
                       lastFetch, timers, nextTimer, syncInflight, now, emptied>>
        /\ UNCHANGED helperVars

\* The configs the control plane may answer an auto-register request with:
\* one for the file, line, function and label the request names.
RegisterReplies(call) ==
    {bp \in ConfigPool : /\ bp.file_path = call.caller.file
                         /\ bp.line_number = call.caller.line
                         /\ bp.function_name = call.caller.functionName
                         /\ bp.label = call.label}

\* autoRegisterBreakpoint returned a config: lines 101-103, then 109-147.
RegisterResponseOk(k, bp) ==
    LET call == CallOf(k)
        seeded == MapSet(breakpointsCache, LocationKey(call), bp)
        outcome == CheckAndShip(call, seeded, now)
    IN  /\ BagIn(k, pending)
        /\ k.pc = "registering"
        /\ bp \in RegisterReplies(call)
        /\ registrationCache' = registrationCache \cup {LocationKey(call)}
        /\ breakpointsCache' = seeded
        /\ pending' = Suspend(Resume(pending, k), call, outcome)
        /\ emptied' = emptied \ {LocationKey(call)}
        /\ lastOp' = Op("registerOk", Site(call), outcome, <<>>)
        /\ UNCHANGED <<pollInterval, lastFetch, timers, nextTimer, syncInflight,
                       now, registerRequests>>
        /\ UNCHANGED helperVars

\* Variant: a failed registration still marks the location as registered.
RegisterResponseFailMarks(k) ==
    /\ BagIn(k, pending)
    /\ k.pc = "registering"
    /\ pending' = Resume(pending, k)
    /\ registrationCache' = registrationCache \cup {LocationKey(CallOf(k))}
    /\ lastOp' = Op("registerFail", Site(k), "skipped", <<>>)
    /\ UNCHANGED <<breakpointsCache, pollInterval, lastFetch, timers, nextTimer,
                   syncInflight, now, registerRequests, emptied>>
    /\ UNCHANGED helperVars

\* autoRegisterBreakpoint returned null (fetch rejected or !response.ok).
RegisterResponseFail(k) ==
    /\ BagIn(k, pending)
    /\ k.pc = "registering"
    /\ pending' = Resume(pending, k)
    /\ lastOp' = Op("registerFail", Site(k), "skipped", <<>>)
    /\ UNCHANGED <<breakpointsCache, registrationCache, pollInterval, lastFetch,
                   timers, nextTimer, syncInflight, now, registerRequests, emptied>>
    /\ UNCHANGED helperVars

\* captureSnapshot, response ok: logged, the promise resolves.
ShipResponse(k) ==
    /\ BagIn(k, pending)
    /\ k.pc = "shipping"
    /\ pending' = Resume(pending, k)
    /\ lastOp' = Op("shipDone", Site(k), "returned", <<>>)
    /\ UNCHANGED <<breakpointsCache, registrationCache, pollInterval, lastFetch,
                   timers, nextTimer, syncInflight, now, registerRequests, emptied>>
    /\ UNCHANGED helperVars

\* Variant: captureSnapshot without its try/catch, the failure propagates.
ShipResponseFailRejects(k) ==
    /\ BagIn(k, pending)
    /\ k.pc = "shipping"
    /\ pending' = Resume(pending, k)
    /\ lastOp' = Op("shipFail", Site(k), "rejected", <<>>)
    /\ UNCHANGED <<breakpointsCache, registrationCache, pollInterval, lastFetch,
                   timers, nextTimer, syncInflight, now, registerRequests, emptied>>
    /\ UNCHANGED helperVars

\* captureSnapshot, fetch rejected or !response.ok: caught and logged
\* (lines 268-276), the promise resolves.
ShipResponseFail(k) ==
    /\ BagIn(k, pending)
    /\ k.pc = "shipping"
    /\ pending' = Resume(pending, k)
    /\ lastOp' = Op("shipFail", Site(k), "returned", <<>>)
    /\ UNCHANGED <<breakpointsCache, registrationCache, pollInterval, lastFetch,
                   timers, nextTimer, syncInflight, now, registerRequests, emptied>>
    /\ UNCHANGED helperVars

\* Time passes.
AdvanceClock ==
    /\ now < MaxTime
    /\ now' = now + 1
    /\ lastOp' = Op("clock", NoCall, "none", <<>>)
    /\ UNCHANGED <<breakpointsCache, registrationCache, pollInterval, lastFetch,
                   timers, nextTimer, syncInflight, pending, registerRequests,
                   emptied>>
    /\ UNCHANGED helperVars

Continuations ==
    {Continuation(pc, Call(caller, label, variables)) :
        pc \in {"registering", "shipping"}, caller \in Callers,
        label \in Labels, variables \in VarMaps}

Next ==
    \/ \E t \in 1..MaxTimers : TimerFire(t)
    \/ \E list \in SyncLists : SyncResponseOk(list)
    \/ SyncResponseFail
    \/ \E caller \in Callers \cup {NoCaller}, label \in Labels,
          variables \in VarMaps : CaptureCall(caller, label, variables)
    \/ \E k \in Continuations, bp \in ConfigPool : RegisterResponseOk(k, bp)
    \/ \E k \in Continuations : RegisterResponseFail(k)
    \/ \E k \in Continuations : ShipResponse(k)
    \/ \E k \in Continuations : ShipResponseFail(k)
    \/ AdvanceClock

Spec == Init /\ [][Next]_vars

\* The running client with the scheduling setInterval gives: an armed timer
\* whose handler can run does run.
FairSpec == Spec /\ WF_vars(\E t \in 1..MaxTimers : TimerFire(t))

\* The sync loop of a started client with the fetches told apart: start()
\* has issued fetch 1, every tick of the interval timer issues the next
\* one, and the fetches in flight settle in any order.
InitSync ==
    /\ breakpointsCache = EmptyMap
    /\ registrationCache = {}
    /\ pollInterval = 1
    /\ lastFetch = NoDate
    /\ timers = {1}
    /\ nextTimer = 1
    /\ syncInflight = 1
    /\ now = 1
    /\ pending = EmptyBag
    /\ registerRequests = [s \in CallSites |-> 0]
    /\ emptied = {}
    /\ lastOp = Op("init", NoCall, "none", <<>>)
    /\ scanInput = <<>>
    /\ scanResult = NotScanned
    /\ stack = <<>>
    /\ located = NotLocated
    /\ urlCall = NoUrlCall
    /\ urlResult = NotResolved
    /\ MetricsBufferNew
    /\ LocalUISpanProcessorNew
    /\ fetches = {1}
    /\ issued = 1
    /\ installed = 0
    /\ NoneHanded

SyncFrame ==
    UNCHANGED <<registrationCache, pollInterval, timers, nextTimer, now,
                pending, registerRequests, emptied, scanVars, locateVars,
                urlVars, metricsVars, localUIVars, handedOver>>

\* An armed interval timer fires (lines 59, 182-190): fetchActiveBreakpoints
\* issues a fetch, whatever is still in flight.
FetchTick(t) ==
    /\ t \in timers
    /\ issued < MaxIssued
    /\ issued' = issued + 1
    /\ fetches' = fetches \cup {issued + 1}
    /\ syncInflight' = syncInflight + 1
    /\ lastOp' = Op("timer", NoCall, "none", <<>>)
    /\ UNCHANGED <<breakpointsCache, lastFetch, installed>>
    /\ SyncFrame

\* The response of fetch f is ok (lines 191-197): replace the cache.
FetchOk(f, list) ==
    /\ f \in fetches
    /\ fetches' = fetches \ {f}
    /\ syncInflight' = syncInflight - 1
    /\ breakpointsCache' = updateBreakpointCache(breakpointsCache, list)
    /\ lastFetch' = now
    /\ installed' = f
    /\ lastOp' = Op("syncOk", NoCall, "none", list)
    /\ UNCHANGED issued
    /\ SyncFrame

\* Fetch f is rejected or its response is not ok (lines 198-200).
FetchFail(f) ==
    /\ f \in fetches
    /\ fetches' = fetches \ {f}
    /\ syncInflight' = syncInflight - 1
    /\ lastOp' = Op("syncFail", NoCall, "none", <<>>)
    /\ UNCHANGED <<breakpointsCache, lastFetch, issued, installed>>
    /\ SyncFrame

NextSync ==
    \/ \E t \in 1..MaxTimers : FetchTick(t)
    \/ \E f \in 1..MaxIssued, list \in SyncLists : FetchOk(f, list)
    \/ \E f \in 1..MaxIssued : FetchFail(f)

SyncSpec == InitSync /\ [][NextSync]_vars

\* The started client with the snapshots counted: the steps of Spec, the
\* two steps that call captureSnapshot (line 147) counting the call when
\* the config it ships under has a budget (max_captures > 0).
BudgetCallers == {CallerA}
BudgetVarMaps == {<<[name |-> <<"u", "s", "e", "r", "I", "d">>, value |-> PlainValue]>>}

\* handedOver after a step with this outcome under config bp.
Hand(outcome, bp) ==
    IF outcome = "shipping" /\ bp.max_captures > 0
    THEN [handedOver EXCEPT ![bp.id] = @ + 1]
    ELSE handedOver

CanHand(outcome, bp) ==
    (outcome = "shipping" /\ bp.max_captures > 0) => handedOver[bp.id] < MaxHanded

BudgetFrame ==
    UNCHANGED <<scanVars, locateVars, urlVars, metricsVars, localUIVars, syncVars>>

\* checkAndCaptureWithContext up to its first await (lines 75-147).
CountedCaptureCall(caller, label, variables) ==
    LET call == Call(caller, label, variables)
        outcome ==
            IF caller = NoCaller THEN "skipped"
            ELSE IF LocationKey(call) \notin registrationCache THEN "registering"
            ELSE CheckAndShip(call, breakpointsCache, now)
        breakpoint == MapGet(breakpointsCache, LocationKey(call))
    IN  /\ BagCardinality(pending) < MaxPending
        /\ (outcome = "registering" /\ lastFetch = NoDate)
               => registerRequests[CallSite(call)] < MaxRegister
        /\ CanHand(outcome, breakpoint)
        /\ pending' = Suspend(pending, call, outcome)
        /\ registerRequests' =
               IF outcome = "registering" /\ lastFetch = NoDate
               THEN [registerRequests EXCEPT ![CallSite(call)] = @ + 1]
               ELSE registerRequests
        /\ handedOver' = Hand(outcome, breakpoint)
        /\ lastOp' = Op("capture", Site(call), outcome, <<>>)
        /\ UNCHANGED <<breakpointsCache, registrationCache, pollInterval,
                       lastFetch, timers, nextTimer, syncInflight, now, emptied>>
        /\ BudgetFrame

\* autoRegisterBreakpoint returned a config: lines 101-103, then 109-147.
CountedRegisterResponseOk(k, bp) ==
    LET call == CallOf(k)
        seeded == MapSet(breakpointsCache, LocationKey(call), bp)
        outcome == CheckAndShip(call, seeded, now)
    IN  /\ BagIn(k, pending)
        /\ k.pc = "registering"
        /\ bp \in RegisterReplies(call)
        /\ CanHand(outcome, bp)
        /\ registrationCache' = registrationCache \cup {LocationKey(call)}
        /\ breakpointsCache' = seeded
        /\ pending' = Suspend(Resume(pending, k), call, outcome)
        /\ emptied' = emptied \ {LocationKey(call)}
        /\ handedOver' = Hand(outcome, bp)
        /\ lastOp' = Op("registerOk", Site(call), outcome, <<>>)
        /\ UNCHANGED <<pollInterval, lastFetch, timers, nextTimer, syncInflight,
                       now, registerRequests>>
        /\ BudgetFrame

BudgetContinuations ==
    {Continuation(pc, Call(caller, label, variables)) :
        pc \in {"registering", "shipping"}, caller \in BudgetCallers,
        label \in Labels, variables \in BudgetVarMaps}

NextBudget ==
    \/ \E t \in 1..MaxTimers : TimerFire(t)
    \/ \E list \in SyncLists : SyncResponseOk(list)
    \/ SyncResponseFail
    \/ \E caller \in BudgetCallers, label \in Labels, variables \in BudgetVarMaps :
          CountedCaptureCall(caller, label, variables)
    \/ \E k \in BudgetContinuations, bp \in ConfigPool :
          CountedRegisterResponseOk(k, bp)
    \/ \E k \in BudgetContinuations : RegisterResponseFail(k)
    \/ \E k \in BudgetContinuations : ShipResponse(k)
    \/ \E k \in BudgetContinuations : ShipResponseFail(k)

BudgetSpec == Init /\ [][NextBudget]_vars

\* scanForSecurityIssues as a function of its argument: a bare client, any
\* variables map, one call.
InitScan ==
    /\ breakpointsCache = EmptyMap
    /\ registrationCache = {}
    /\ pollInterval = NoTimer
    /\ lastFetch = NoDate
    /\ timers = {}
    /\ nextTimer = 0
    /\ syncInflight = 0
    /\ now = 1
    /\ pending = EmptyBag
    /\ registerRequests = [s \in CallSites |-> 0]
    /\ emptied = {}
    /\ lastOp = Op("init", NoCall, "none", <<>>)
    /\ scanInput \in ScanInputs
    /\ scanResult = NotScanned
    /\ stack = <<>>
    /\ located = NotLocated
    /\ urlCall = NoUrlCall
    /\ urlResult = NotResolved
    /\ MetricsBufferNew
    /\ LocalUISpanProcessorNew
    /\ NoFetchesTracked
    /\ NoneHanded

Scan ==
    /\ ~scanResult.done
    /\ scanResult' = scanForSecurityIssues(scanInput)
    /\ lastOp' = Op("scan", NoCall, "none", <<>>)
    /\ UNCHANGED <<breakpointsCache, registrationCache, pollInterval, lastFetch,
                   timers, nextTimer, syncInflight, now, pending,
                   registerRequests, emptied, scanInput>>
    /\ UNCHANGED <<locateVars, urlVars, metricsVars, localUIVars, syncVars, handedOver>>

RedactSpec == InitScan /\ [][Scan]_vars

\* parseStackTrace as a function of the stack: a bare client, any stack of
\* either entry path, one call.
InitLocate ==
    /\ breakpointsCache = EmptyMap
    /\ registrationCache = {}
    /\ pollInterval = NoTimer
    /\ lastFetch = NoDate
    /\ timers = {}
    /\ nextTimer = 0
    /\ syncInflight = 0
    /\ now = 1
    /\ pending = EmptyBag
    /\ registerRequests = [s \in CallSites |-> 0]
    /\ emptied = {}
    /\ lastOp = Op("init", NoCall, "none", <<>>)
    /\ scanInput = <<>>
    /\ scanResult = NotScanned
    /\ stack \in Stacks
    /\ located = NotLocated
    /\ urlCall = NoUrlCall
    /\ urlResult = NotResolved
    /\ MetricsBufferNew
    /\ LocalUISpanProcessorNew
    /\ NoFetchesTracked
    /\ NoneHanded

Locate ==
    /\ ~located.done
    /\ located' = [done |-> TRUE, caller |-> parseStackTrace(stack)]
    /\ lastOp' = Op("locate", NoCall, "none", <<>>)
    /\ UNCHANGED <<breakpointsCache, registrationCache, pollInterval, lastFetch,
                   timers, nextTimer, syncInflight, now, pending,
                   registerRequests, emptied, stack>>
    /\ UNCHANGED <<scanVars, urlVars, metricsVars, localUIVars, syncVars, handedOver>>

LocateSpec == InitLocate /\ [][Locate]_vars

\* resolveEndpoint and extractBaseURL as functions of their arguments: a
\* bare client, any call, one of the two functions applied once.
InitUrl ==
    /\ breakpointsCache = EmptyMap
    /\ registrationCache = {}
    /\ pollInterval = NoTimer
    /\ lastFetch = NoDate
    /\ timers = {}
    /\ nextTimer = 0
    /\ syncInflight = 0
    /\ now = 1
    /\ pending = EmptyBag
    /\ registerRequests = [s \in CallSites |-> 0]
    /\ emptied = {}
    /\ lastOp = Op("init", NoCall, "none", <<>>)
    /\ scanInput = <<>>
    /\ scanResult = NotScanned
    /\ stack = <<>>
    /\ located = NotLocated
    /\ urlCall \in UrlCalls
    /\ urlResult = NotResolved
    /\ MetricsBufferNew
    /\ LocalUISpanProcessorNew
    /\ NoFetchesTracked
    /\ NoneHanded

UrlFrame ==
    UNCHANGED <<breakpointsCache, registrationCache, pollInterval, lastFetch,
                timers, nextTimer, syncInflight, now, pending,
                registerRequests, emptied, urlCall, scanVars, locateVars,
                metricsVars, localUIVars, syncVars, handedOver>>

ResolveEndpointCall ==
    /\ ~urlResult.done
    /\ urlResult' = [done |-> TRUE, fn |-> "resolveEndpoint",
                     value |-> resolveEndpoint(Endpoint(urlCall), urlCall.path,
                                               urlCall.useSSL)]
    /\ lastOp' = Op("resolveEndpoint", NoCall, "none", <<>>)
    /\ UrlFrame

ExtractBaseURLCall ==
    /\ ~urlResult.done
    /\ urlResult' = [done |-> TRUE, fn |-> "extractBaseURL",
                     value |-> extractBaseURL(Endpoint(urlCall))]
    /\ lastOp' = Op("extractBaseURL", NoCall, "none", <<>>)
    /\ UrlFrame

NextUrl == ResolveEndpointCall \/ ExtractBaseURLCall

UrlSpec == InitUrl /\ [][NextUrl]_vars

\* A bare snapshot client next to a new LocalUISpanProcessor.
InitLocalUI ==
    /\ breakpointsCache = EmptyMap
    /\ registrationCache = {}
    /\ pollInterval = NoTimer
    /\ lastFetch = NoDate
    /\ timers = {}
    /\ nextTimer = 0
    /\ syncInflight = 0
    /\ now = 1
    /\ pending = EmptyBag
    /\ registerRequests = [s \in CallSites |-> 0]
    /\ emptied = {}
    /\ lastOp = Op("init", NoCall, "none", <<>>)
    /\ scanInput = <<>>
    /\ scanResult = NotScanned
    /\ stack = <<>>
    /\ located = NotLocated
    /\ urlCall = NoUrlCall
    /\ urlResult = NotResolved
    /\ MetricsBufferNew
    /\ LocalUISpanProcessorNew
    /\ NoFetchesTracked
    /\ NoneHanded

LocalUISpec == InitLocalUI /\ [][NextLocalUI]_vars

NextLifecycle ==
    \/ Start
    \/ Stop
    \/ \E t \in 1..MaxTimers : TimerFire(t)
    \/ \E list \in SyncLists : SyncResponseOk(list)
    \/ SyncResponseFail

LifecycleSpec == InitBare /\ [][NextLifecycle]_vars

TypeOK ==
    /\ DOMAIN breakpointsCache \subseteq STRING
    /\ \A k \in DOMAIN breakpointsCache : breakpointsCache[k] \in ConfigPool
    /\ pollInterval \in 0..nextTimer
    /\ timers \subseteq 1..nextTimer
    /\ syncInflight \in 0..MaxInflight \/ syncInflight = Cardinality(fetches)
    /\ now \in 1..MaxTime
    /\ BagCardinality(pending) <= MaxPending

(***************************************************************************)
(* Properties.                                                             *)
(***************************************************************************)
\* The step just taken ran the lookup of line 110 for lastOp.call: a capture
\* at a registered location, or the continuation of a registration.
LookedUp ==
    \/ lastOp.op = "registerOk"
    \/ /\ lastOp.op = "capture"
       /\ lastOp.call.caller # NoCaller
       /\ LocationKey(lastOp.call) \in registrationCache

\* The config under the key of lastOp.call.  A capture step leaves the cache
\* alone and a registration step looks up after seeding, so after either
\* step this is the config the step saw.
CachedConfig == MapGet(breakpointsCache, LocationKey(lastOp.call))

\* C1: the promise of checkAndCaptureWithContext never rejects, whatever
\* the label, the values map and the client state.
C1_NeverRejects == lastOp.outcome # "rejected"

\* C2: before the first sync completes, at most one auto-register request
\* is sent for a label at a source location, however the calls interleave.
C2_AtMostOneRegistration ==
    lastFetch = NoDate => \A site \in CallSites : registerRequests[site] <= 1

\* C3: while stopped (stop() has returned, start() not called since) no
\* interval timer issues a sync fetch.
C3_NoFetchAfterStop == ~(pollInterval = NoTimer /\ lastOp.op = "timer")

\* C4 as claimed: after a sync that returned the empty list, no capture at
\* an identity that was armed before it hands a snapshot to the transport,
\* registered or not.
C4_Original ==
    [][(/\ lastOp'.op \in {"capture", "registerOk"}
        /\ LocationKey(lastOp'.call) \in emptied)
       => lastOp'.outcome # "shipping"]_vars

\* C4 as amended: after a sync that returned the empty list, a capture at
\* an identity that was armed before it hands no snapshot to the transport
\* for as long as no auto-registration response has seeded the cache for
\* that identity again and no later sync has returned a non-empty list.
C4_EmptiedSkips ==
    (lastOp.op = "capture" /\ LocationKey(lastOp.call) \in emptied)
        => lastOp.outcome \in {"skipped", "registering"}

C4_Witness ==
    /\ lastOp.op = "capture"
    /\ LocationKey(lastOp.call) \in emptied
    /\ LocationKey(lastOp.call) \in registrationCache
    /\ lastOp.outcome = "skipped"

\* C5 as claimed: a capture whose cached config is disabled hands no
\* snapshot and sends no request at all, auto-registration included.
C5_Original ==
    (/\ lastOp.op = "capture"
     /\ CachedConfig # NoConfig
     /\ ~CachedConfig.enabled)
        => lastOp.outcome = "skipped"

\* C5 as amended: a capture whose cached config is disabled hands no
\* snapshot; it sends no request at all when its identity is in the
\* registered set, and exactly the auto-registration request when it is
\* not (the check of the enabled flag then applies to the config the
\* registration response seeds).
C5_DisabledSkips ==
    (/\ lastOp.op \in {"capture", "registerOk"}
     /\ CachedConfig # NoConfig
     /\ ~CachedConfig.enabled)
        => IF LookedUp THEN lastOp.outcome = "skipped"
           ELSE lastOp.outcome = "registering"

C5_Witness ==
    /\ lastOp.op = "capture"
    /\ LookedUp
    /\ CachedConfig = Disabled1
    /\ lastOp.outcome = "skipped"

\* The capture budget of bp is used up.
BudgetExhausted(bp) == bp.max_captures > 0 /\ bp.capture_count >= bp.max_captures

\* C6 as claimed: a capture made or resumed while the cache holds an
\* exhausted config (max_captures > 0, capture_count >= max_captures) for
\* its identity hands no snapshot, registered or not.
C6_Original ==
    [][(/\ lastOp'.op \in {"capture", "registerOk"}
        /\ BudgetExhausted(MapGet(breakpointsCache, LocationKey(lastOp'.call))))
       => lastOp'.outcome # "shipping"]_vars

\* C6 as amended: whenever the config a capture resolves at its lookup
\* (line 110, after the registration response, if any, has seeded the
\* cache) has max_captures > 0 and capture_count >= max_captures, the
\* capture skips, whatever the other fields of the config.
C6_ExhaustedSkips ==
    (LookedUp /\ BudgetExhausted(CachedConfig)) => lastOp.outcome = "skipped"

C6_Witness ==
    /\ LookedUp
    /\ CachedConfig = Exhausted1
    /\ CachedConfig.enabled
    /\ lastOp.outcome = "skipped"

\* expire_at names an instant earlier than t
ExpiredAt(bp, t) == bp.expire_at.kind # "undefined" /\ bp.expire_at.t < t

\* C7: a capture whose resolved config has an expire_at earlier than the
\* current time hands no snapshot to the transport, even when the config
\* is enabled and under budget.
C7_ExpiredSkips ==
    (LookedUp /\ CachedConfig # NoConfig /\ ExpiredAt(CachedConfig, now))
        => lastOp.outcome # "shipping"

\* The keys updateBreakpointCache is meant to derive from one config.
HasLabelIdentity(bp) == Truthy(bp.label) /\ Truthy(bp.function_name)
LabelKeyOf(bp) == LabelKey(bp.function_name, bp.label)
LineKeyOf(bp) == LineKey(bp.file_path, bp.line_number)
KeysOf(bp) == {LineKeyOf(bp)} \cup (IF HasLabelIdentity(bp) THEN {LabelKeyOf(bp)} ELSE {})

\* C8 as claimed: right after a successful sync, both keys of every
\* fetched config that has both identities return that config.
C8_Original ==
    lastOp.op = "syncOk" =>
        \A i \in 1..Len(lastOp.list) :
            HasLabelIdentity(lastOp.list[i]) =>
                /\ MapGet(breakpointsCache, LabelKeyOf(lastOp.list[i])) = lastOp.list[i]
                /\ MapGet(breakpointsCache, LineKeyOf(lastOp.list[i])) = lastOp.list[i]

\* C8 as amended: right after a successful sync, both keys of every
\* fetched config that has both identities return that config, provided no
\* config later in the fetched list produces one of its keys.
C8_DualKey ==
    lastOp.op = "syncOk" =>
        \A i \in 1..Len(lastOp.list) :
            (/\ HasLabelIdentity(lastOp.list[i])
             /\ \A j \in (i + 1)..Len(lastOp.list) :
                    KeysOf(lastOp.list[j]) \cap KeysOf(lastOp.list[i]) = {})
            => /\ MapGet(breakpointsCache, LabelKeyOf(lastOp.list[i])) = lastOp.list[i]
               /\ MapGet(breakpointsCache, LineKeyOf(lastOp.list[i])) = lastOp.list[i]

C8_Witness ==
    /\ lastOp.op = "syncOk"
    /\ lastOp.list = <<NoLabel2, Armed3>>
    /\ breakpointsCache["funcA:labelX"] = Armed3
    /\ breakpointsCache["other.ts:7"] = Armed3

\* C9 as claimed: after a successful sync the cache contains the
\* functionName:label key and the filePath:lineNumber key of every fetched
\* config, those without a label included.
C9_Original ==
    lastOp.op = "syncOk" =>
        \A i \in 1..Len(lastOp.list) :
            /\ LabelKeyOf(lastOp.list[i]) \in DOMAIN breakpointsCache
            /\ LineKeyOf(lastOp.list[i]) \in DOMAIN breakpointsCache

\* C9 as amended: after a successful sync the cache contains the
\* filePath:lineNumber key of every fetched config, and its
\* functionName:label key when the config has a non-empty label and a
\* non-empty function name.
C9_KeysPopulated ==
    lastOp.op = "syncOk" =>
        \A i \in 1..Len(lastOp.list) :
            /\ LineKeyOf(lastOp.list[i]) \in DOMAIN breakpointsCache
            /\ HasLabelIdentity(lastOp.list[i])
                   => LabelKeyOf(lastOp.list[i]) \in DOMAIN breakpointsCache

C9_Witness ==
    /\ lastOp.op = "syncOk"
    /\ lastOp.list = <<Armed1, NoLabel2>>
    /\ DOMAIN breakpointsCache = {"funcA:labelX", "file.ts:42", "other.ts:7"}

\* C10: right after a successful sync the cache holds exactly the entries
\* derived from the fetched list: its keys are the keys of the fetched
\* configs, each bound to a fetched config that has that key; nothing
\* from an earlier sync or an auto-registration seed is left.
C10_CacheReplaced ==
    lastOp.op = "syncOk" =>
        /\ DOMAIN breakpointsCache =
               UNION {KeysOf(lastOp.list[i]) : i \in 1..Len(lastOp.list)}
        /\ \A k \in DOMAIN breakpointsCache :
               \E i \in 1..Len(lastOp.list) :
                   /\ k \in KeysOf(lastOp.list[i])
                   /\ breakpointsCache[k] = lastOp.list[i]

\* A sync has just dropped the seed of a registered identity.
C10_Witness ==
    /\ lastOp.op = "syncOk"
    /\ lastOp.list = <<NoLabel2>>
    /\ "funcA:labelX" \in registrationCache
    /\ "funcA:labelX" \notin DOMAIN breakpointsCache
    /\ DOMAIN breakpointsCache = {"other.ts:7"}

\* C11: start() and stop() are idempotent: however often start() is
\* called, at most one interval timer is armed, and a stop() that follows
\* a stop() changes nothing.
C11_Idempotent ==
    /\ [](Cardinality(timers) <= 1)
    /\ [][(lastOp.op = "stop" /\ lastOp'.op = "stop")
             => UNCHANGED <<breakpointsCache, registrationCache, pollInterval,
                            timers, syncInflight>>]_vars

\* C12: while stopped (stop() has returned, start() not called since) no
\* sync response replaces the cache, a response to a fetch that was in
\* flight when stop() was called included.
C12_NoCacheWriteAfterStop ==
    [][pollInterval = NoTimer => breakpointsCache' = breakpointsCache]_vars

\* C18: a start() call issues exactly one fetch at once and arms exactly
\* one interval timer, which it stores in pollInterval; every firing of an
\* armed timer issues exactly one fetch and leaves the timer armed; only
\* stop() disarms a timer, so the timer of a running loop stays armed.
C18_FetchNowThenEveryInterval ==
    /\ [][lastOp'.op = "start"
             => /\ syncInflight' = syncInflight + 1
                /\ Cardinality(timers') = Cardinality(timers) + 1
                /\ pollInterval' \in timers' \ timers]_vars
    /\ [][lastOp'.op = "timer"
             => /\ syncInflight' = syncInflight + 1
                /\ timers' = timers]_vars
    /\ [][timers \subseteq timers' \/ lastOp'.op = "stop"]_vars
    /\ [](pollInterval # NoTimer => pollInterval \in timers)

\* The timer of a running loop has just fired, after the immediate fetch
\* of start() was answered.
C18_Witness ==
    /\ lastOp.op = "timer"
    /\ pollInterval # NoTimer
    /\ timers = {pollInterval}
    /\ lastFetch # NoDate
    /\ syncInflight = 1

\* C13: a sync fetch that fails leaves the cache, the registered set, the
\* last-fetch time and the timers as they were, and once it has failed
\* every armed timer can fire again and issue the next fetch.
C13_FailedSyncHarmless ==
    /\ [][lastOp'.op = "syncFail"
             => UNCHANGED <<breakpointsCache, registrationCache, lastFetch,
                            timers, pollInterval>>]_vars
    /\ [](lastOp.op = "syncFail"
             => /\ pollInterval \in timers
                /\ \A t \in timers : ENABLED TimerFire(t))

\* A sync has just failed on a client that holds cached configs and
\* registered identities.
C13_Witness ==
    /\ lastOp.op = "syncFail"
    /\ DOMAIN breakpointsCache # {}
    /\ registrationCache # {}
    /\ lastFetch # NoDate

\* C14: a capture whose auto-registration or whose snapshot send fails
\* completes without throwing, and the failure changes nothing a later
\* capture depends on: cache, registered set, timers and last-fetch time
\* stay as they were.
C14_CaptureFailureContained ==
    [][lastOp'.op \in {"registerFail", "shipFail"}
          => /\ lastOp'.outcome \in {"skipped", "returned"}
             /\ UNCHANGED <<breakpointsCache, registrationCache, lastFetch,
                            timers, pollInterval>>]_vars

\* A snapshot send has just failed at a registered, cached identity while
\* another capture is still in flight.
C14_Witness ==
    /\ lastOp.op = "shipFail"
    /\ LocationKey(lastOp.call) \in registrationCache
    /\ LocationKey(lastOp.call) \in DOMAIN breakpointsCache
    /\ BagCardinality(pending) > 0

\* C15: the registered set only grows, and a capture at an identity in it
\* sends no registration request, also when the cache has no entry for
\* the identity.
C15_RegisteredForGood ==
    /\ [][registrationCache \subseteq registrationCache']_vars
    /\ []((/\ lastOp.op = "capture"
           /\ lastOp.call.caller # NoCaller
           /\ LocationKey(lastOp.call) \in registrationCache)
          => lastOp.outcome # "registering")

\* A capture at a registered identity that a sync has dropped from the
\* cache was skipped without a registration request.
C15_Witness ==
    /\ lastOp.op = "capture"
    /\ lastOp.call.caller # NoCaller
    /\ LocationKey(lastOp.call) \in registrationCache
    /\ LocationKey(lastOp.call) \notin DOMAIN breakpointsCache
    /\ lastFetch # NoDate
    /\ lastOp.outcome = "skipped"

\* C16: a capture whose auto-registration fails ships no snapshot and
\* leaves the registered set and the cache as they were, and a capture at
\* an identity that is not in the registered set sends a registration
\* request.
C16_FailedRegistrationRetried ==
    /\ [][lastOp'.op = "registerFail"
             => /\ lastOp'.outcome = "skipped"
                /\ \A k \in Continuations :
                       k.pc = "shipping" => CopiesIn(k, pending') = CopiesIn(k, pending)
                /\ UNCHANGED <<breakpointsCache, registrationCache>>]_vars
    /\ []((/\ lastOp.op = "capture"
           /\ lastOp.call.caller # NoCaller
           /\ LocationKey(lastOp.call) \notin registrationCache)
          => lastOp.outcome = "registering")

\* A registration has just failed after the first sync, and its identity
\* is in neither the registered set nor the cache.
C16_Witness ==
    /\ lastOp.op = "registerFail"
    /\ lastFetch # NoDate
    /\ LocationKey(lastOp.call) \notin registrationCache
    /\ LocationKey(lastOp.call) \notin DOMAIN breakpointsCache

\* C17: the cache changes only in whole steps.  A successful sync takes it
\* in one step to exactly the entries of the complete fetched list, a
\* registration response changes the one key it seeds, and no other step
\* changes it: no state a capture can read holds a cleared or partly
\* refilled cache.
C17_CacheReplaceAtomic ==
    /\ [][lastOp'.op = "syncOk"
             => /\ DOMAIN breakpointsCache' =
                       UNION {KeysOf(lastOp'.list[i]) : i \in 1..Len(lastOp'.list)}
                /\ \A i \in 1..Len(lastOp'.list) :
                       (\A j \in (i + 1)..Len(lastOp'.list) :
                            KeysOf(lastOp'.list[j]) \cap KeysOf(lastOp'.list[i]) = {})
                       => \A key \in KeysOf(lastOp'.list[i]) :
                              breakpointsCache'[key] = lastOp'.list[i]]_vars
    /\ [][lastOp'.op = "registerOk"
             => /\ DOMAIN breakpointsCache' =
                       DOMAIN breakpointsCache \cup {LocationKey(lastOp'.call)}
                /\ \A key \in DOMAIN breakpointsCache \ {LocationKey(lastOp'.call)} :
                       breakpointsCache'[key] = breakpointsCache[key]]_vars
    /\ [][lastOp'.op \notin {"syncOk", "registerOk"}
             => breakpointsCache' = breakpointsCache]_vars

\* A sync has just replaced a non-empty cache by a two-config list while a
\* capture is suspended in its registration request.
C17_Witness ==
    /\ lastOp.op = "syncOk"
    /\ Len(lastOp.list) = 2
    /\ \E k \in BagToSet(pending) : k.pc = "registering"
    /\ registrationCache # {}

\* The lists the control plane settles on in C19, and the identities a
\* capture can name.
SettledLists == {<<>>, <<NoLabel2>>}
IdentityKeys == {LabelKey(caller.functionName, label) :
                    caller \in Callers, label \in Labels}

\* C19: if from some point on the control plane holds the same set of
\* breakpoints (every successful sync returns the same list and no
\* registration creates a breakpoint) and syncs keep succeeding, then from
\* some point on the cache holds exactly the keys of that list, and an
\* identity the list does not have does not stay in the registered set
\* forever.
C19_EventuallyConsistent ==
    \A list \in SettledLists :
        (/\ <>[](lastOp.op = "syncOk" => lastOp.list = list)
         /\ <>[](lastOp.op # "registerOk")
         /\ []<>(lastOp.op = "syncOk"))
        => /\ <>[](DOMAIN breakpointsCache =
                       UNION {KeysOf(list[i]) : i \in 1..Len(list)})
           /\ \A key \in IdentityKeys :
                  (\A i \in 1..Len(list) : key \notin KeysOf(list[i]))
                      => []<>(key \notin registrationCache)

\* The flags a scan result holds for a variable, and the value it holds.
FlagsFor(name) ==
    {j \in 1..Len(scanResult.flags) : scanResult.flags[j].variable = name}
SanitizedValue(name) ==
    scanResult.variables[CHOOSE i \in 1..Len(scanResult.variables) :
                             scanResult.variables[i].name = name].value

\* C20: in what scanForSecurityIssues returns, every variable whose name
\* contains password, secret, token, key or credential in any letter case
\* has the value '[REDACTED]' and exactly one flag, of type
\* sensitive_variable_name and severity medium; no sensitive_data_* flag
\* names it.
C20_SensitiveNameRedacted ==
    (scanResult.done /\ ~scanResult.threw) =>
        \A i \in 1..Len(scanInput) :
            SensitiveName(scanInput[i].name) =>
                /\ SanitizedValue(scanInput[i].name) = Redacted
                /\ Cardinality(FlagsFor(scanInput[i].name)) = 1
                /\ \A j \in FlagsFor(scanInput[i].name) :
                       /\ scanResult.flags[j].type = "sensitive_variable_name"
                       /\ scanResult.flags[j].severity = "medium"

\* A scan has returned for a map with a variable whose name is sensitive
\* in upper case and whose value matches a value pattern, next to a
\* variable whose value alone is flagged.
C20_Witness ==
    /\ scanResult.done
    /\ ~scanResult.threw
    /\ \E i \in 1..Len(scanInput) :
           /\ SensitiveName(scanInput[i].name)
           /\ scanInput[i].name # LowerAll(scanInput[i].name)
           /\ FirstPattern(scanInput[i].value.json) # 0
    /\ \E j \in 1..Len(scanResult.flags) :
           scanResult.flags[j].type = "sensitive_data_password"

\* An API-key-shaped assignment, as the redaction examples use the term: a
\* key word (token, api_key, api-key, apikey), "=" or ":", and at least
\* twenty token characters.
ApiKeyShaped ==
    Cat(<<Alt(<<LitI(<<"t", "o", "k", "e", "n">>),
                LitI(<<"a", "p", "i", "_", "k", "e", "y">>),
                LitI(<<"a", "p", "i", "-", "k", "e", "y">>),
                LitI(<<"a", "p", "i", "k", "e", "y">>)>>),
          Chars({"=", ":"}),
          Rep(Chars(TokenChars), 20, -1)>>)

\* C21: in what scanForSecurityIssues returns, a variable whose name is
\* not sensitive and whose value is an API-key-shaped assignment has the
\* value '[REDACTED]' and exactly one flag, of type sensitive_data_api_key
\* and severity high.
C21_ApiKeyValueRedacted ==
    (scanResult.done /\ ~scanResult.threw) =>
        \A i \in 1..Len(scanInput) :
            (/\ ~SensitiveName(scanInput[i].name)
             /\ scanInput[i].value.serializable
             /\ Test(ApiKeyShaped, scanInput[i].value.json))
            => /\ SanitizedValue(scanInput[i].name) = Redacted
               /\ Cardinality(FlagsFor(scanInput[i].name)) = 1
               /\ \A j \in FlagsFor(scanInput[i].name) :
                      /\ scanResult.flags[j].type = "sensitive_data_api_key"
                      /\ scanResult.flags[j].severity = "high"

\* C22: scanForSecurityIssues returns for every variables map, its result
\* has the names of the input, in the same order, and every value
\* JSON.stringify rejects is replaced by its `[typeof]` string, whatever
\* the name of the variable.
C22_KeysKeptPlaceholders ==
    scanResult.done =>
        /\ ~scanResult.threw
        /\ Len(scanResult.variables) = Len(scanInput)
        /\ \A i \in 1..Len(scanInput) :
               /\ scanResult.variables[i].name = scanInput[i].name
               /\ ~scanInput[i].value.serializable
                      => scanResult.variables[i].value =
                             Placeholder(scanInput[i].value.type)

\* The call site of a stack: its first frame that is not the engine's.
CallSiteFrame ==
    stack[CHOOSE i \in 1..Len(stack) :
              /\ ~stack[i].engine
              /\ \A j \in 1..(i - 1) : stack[j].engine]

\* C23: the location parseStackTrace returns is that of the first frame
\* outside the engine, for a call through TracekitClient.captureSnapshot
\* and for a direct call of checkAndCaptureWithContext alike.
C23_LocatesCallSite ==
    located.done => located.caller = ParseLine(CallSiteFrame)

\* C24: a capture call for which parseStackTrace returns null returns at
\* once: no registration request and no snapshot is sent (no call is left
\* suspended at a fetch), and the cache and the registered set stay as
\* they were.
C24_UnlocatedSkips ==
    [][(lastOp'.op = "capture" /\ lastOp'.call.caller = NoCaller)
          => /\ lastOp'.outcome = "skipped"
             /\ UNCHANGED <<pending, registerRequests, breakpointsCache,
                            registrationCache>>]_vars

\* A capture without a resolved caller has just returned on a client that
\* has a cached config and a registered identity.
C24_Witness ==
    /\ lastOp.op = "capture"
    /\ lastOp.call.caller = NoCaller
    /\ lastOp.outcome = "skipped"
    /\ DOMAIN breakpointsCache # {}
    /\ registrationCache # {}

\* C25: resolveEndpoint with a non-empty path, given an endpoint that has
\* a scheme and a path of its own, returns the endpoint without its
\* trailing slash: scheme, host and the endpoint's path, nothing appended.
C25_FullUrlKept ==
    (/\ urlResult.done
     /\ urlResult.fn = "resolveEndpoint"
     /\ urlCall.path # <<>>
     /\ urlCall.scheme # <<>>
     /\ urlCall.epath # <<>>)
    => urlResult.value = urlCall.scheme \o urlCall.host \o urlCall.epath

C27_ExtractBase ==
    (urlResult.done /\ urlResult.fn = "extractBaseURL") =>
        IF /\ urlCall.scheme # <<>>
           /\ \E sp \in ServicePaths : Contains(urlCall.epath, sp)
        THEN urlResult.value = urlCall.scheme \o urlCall.host
        ELSE urlResult.value = Endpoint(urlCall)

\* extractBaseURL has returned a url with a custom path unchanged.
C27_Witness ==
    /\ urlResult.done
    /\ urlResult.fn = "extractBaseURL"
    /\ urlCall.scheme = Http
    /\ urlCall.epath = <<"/", "c", "u", "s", "t", "o", "m">>
    /\ urlResult.value = Endpoint(urlCall)

\* C28: whenever an operation of the metrics buffer has returned, the
\* buffer holds fewer than maxSize points, and the add() that brings it to
\* maxSize hands all maxSize points to the exporter and leaves it empty.
C28_BufferBelowMax ==
    /\ [](data < maxSize)
    /\ [][(metricsOp'.op = "add" /\ ~isShuttingDown /\ data + 1 = maxSize)
             => /\ data' = 0
                /\ metricsOp'.handed = maxSize
                /\ exportsInflight' = exportsInflight + 1]_vars

\* An add() has just handed a full batch to the exporter while a flush
\* timeout is armed.
C28_Witness ==
    /\ metricsOp.op = "add"
    /\ metricsOp.handed = maxSize
    /\ data = 0
    /\ flushTimer \in flushTimers

\* C29: while shutdown() has not been called, the callback of a flush
\* timeout arms the next timeout, the settling of an export, failed or
\* not, leaves the timeouts alone, and so the timeout start() stored stays
\* armed; once shutdown() has been called no step arms a timeout.
C29_FlushTimerRearmed ==
    /\ [][(metricsOp'.op = "timer" /\ ~isShuttingDown)
             => /\ metricsOp'.armed
                /\ flushTimer' \in flushTimers'
                /\ Cardinality(flushTimers') = Cardinality(flushTimers)]_vars
    /\ [][metricsOp'.op \in {"exportOk", "exportFail"}
             => UNCHANGED <<flushTimer, flushTimers>>]_vars
    /\ []((flushTimer # NoTimer /\ ~isShuttingDown) => flushTimer \in flushTimers)
    /\ [](metricsOp.armed => ~isShuttingDown)

\* The callback of a flush timeout has handed a batch to the exporter and
\* armed the next timeout while an earlier export is still unsettled.
C29_Witness ==
    /\ metricsOp.op = "timer"
    /\ metricsOp.armed
    /\ metricsOp.handed > 0
    /\ exportsInflight = 2
    /\ flushTimer \in flushTimers

\* C30: the capture_count of a cached config is the one the control plane
\* sent.  After every step, each cached config either was cached under the
\* same key before the step, with the same id and capture_count, or is a
\* config of the list the step fetched, or is the config the step received
\* for its registration request; a step that ships a snapshot changes no
\* capture_count.
C30_CaptureCountFromServer ==
    [][\A key \in DOMAIN breakpointsCache' :
          \/ /\ key \in DOMAIN breakpointsCache
             /\ breakpointsCache'[key].id = breakpointsCache[key].id
             /\ breakpointsCache'[key].capture_count =
                    breakpointsCache[key].capture_count
          \/ /\ lastOp'.op = "syncOk"
             /\ \E i \in 1..Len(lastOp'.list) :
                    lastOp'.list[i] = breakpointsCache'[key]
          \/ /\ lastOp'.op = "registerOk"
             /\ key = LocationKey(lastOp'.call)
             /\ breakpointsCache'[key] \in ConfigPool]_vars

\* A capture has just shipped a snapshot under a config with a budget, and
\* the cached config still has the capture_count the control plane sent.
C30_Witness ==
    /\ lastOp.op = "capture"
    /\ lastOp.outcome = "shipping"
    /\ CachedConfig = Expiring1
    /\ CachedConfig.capture_count = 1

\* C36: whenever the cache holds entries under both keys of one breakpoint
\* (its function_name:label key and its file_path:line_number key, both
\* entries carrying the breakpoint's id), the two entries are the same
\* config, also between an auto-registration and the next sync.
C36_TwoKeysAgree ==
    \A k1 \in DOMAIN breakpointsCache :
        LET bp == breakpointsCache[k1]
        IN  (/\ HasLabelIdentity(bp)
             /\ k1 = LabelKeyOf(bp)
             /\ LineKeyOf(bp) \in DOMAIN breakpointsCache
             /\ breakpointsCache[LineKeyOf(bp)].id = bp.id)
                => breakpointsCache[LineKeyOf(bp)] = bp

\* functionName:label of a call site, whatever its file and line.
FunctionLabel(site) == LabelKey(site.caller.functionName, site.label)

\* The policy checks of lines 111-123 let the config through.
PassesPolicy(bp, t) ==
    /\ bp # NoConfig
    /\ bp.enabled
    /\ ~(bp.expire_at.kind = "number" /\ bp.expire_at.t # 0 /\ t > bp.expire_at.t)
    /\ ~BudgetExhausted(bp)

RegisteringIn(bag) ==
    {k \in BagToSet(bag) : k.pc = "registering"}

PatternOrder == <<"password", "api_key", "jwt", "credit_card">>

\* The value patterns a serialized value matches, as positions in the order.
MatchingPatterns(serialized) ==
    {n \in 1..Len(sensitivePatterns) : Test(sensitivePatterns[n].pattern, serialized)}

\* C32: in what scanForSecurityIssues returns there is at most one flag per
\* input variable.  A variable that is not redacted by name and whose
\* serialized value matches one or more value patterns has exactly one
\* flag, of type sensitive_data_<the first matching pattern in the order
\* password, api_key, jwt, credit_card> and severity high, and the value
\* '[REDACTED]'.
C32_FirstPatternWins ==
    (scanResult.done /\ ~scanResult.threw) =>
        /\ \A n \in 1..Len(sensitivePatterns) :
               sensitivePatterns[n].type = PatternOrder[n]
        /\ \A i \in 1..Len(scanInput) :
               LET name == scanInput[i].name
                   matching == IF scanInput[i].value.serializable
                               THEN MatchingPatterns(scanInput[i].value.json)
                               ELSE {}
               IN  /\ Cardinality(FlagsFor(name)) <= 1
                   /\ (~SensitiveName(name) /\ matching # {}) =>
                          /\ Cardinality(FlagsFor(name)) = 1
                          /\ SanitizedValue(name) = Redacted
                          /\ \A j \in FlagsFor(name) :
                                 /\ scanResult.flags[j].severity = "high"
                                 /\ \E n \in matching :
                                        /\ \A m \in matching : n <= m
                                        /\ scanResult.flags[j].type =
                                               "sensitive_data_" \o PatternOrder[n]

\* A scan has returned for a variable whose name is not sensitive and whose
\* value matches both the password and the credit_card pattern; its one
\* flag is the password flag.
C32_Witness ==
    /\ scanResult.done
    /\ ~scanResult.threw
    /\ \E i \in 1..Len(scanInput) :
           /\ ~SensitiveName(scanInput[i].name)
           /\ scanInput[i].value.serializable
           /\ MatchingPatterns(scanInput[i].value.json) = {1, 4}
           /\ \E j \in FlagsFor(scanInput[i].name) :
                  scanResult.flags[j].type = "sensitive_data_password"

\* C38: every data point is handed to the exporter at most once.  Points
\* enter the buffer only through add(), one per call; a step that hands a
\* batch to the exporter hands exactly the points the buffer holds (with
\* the point being added, in add()) and leaves the buffer empty in the same
\* step; a settled export, failed or not, puts nothing back.
C38_HandedAtMostOnce ==
    /\ [][data' > data
             => /\ metricsOp'.op = "add"
                /\ data' = data + 1
                /\ metricsOp'.handed = 0]_vars
    /\ [][metricsOp'.handed > 0
             => /\ data' = 0
                /\ metricsOp'.handed =
                       data + (IF metricsOp'.op = "add" THEN 1 ELSE 0)
                /\ exportsInflight' = exportsInflight + 1]_vars
    /\ [][metricsOp'.op \in {"exportOk", "exportFail"}
             => /\ UNCHANGED data
                /\ exportsInflight' = exportsInflight - 1]_vars

\* An export has just failed while the buffer holds a newer point and
\* another export is still in flight.
C38_Witness ==
    /\ metricsOp.op = "exportFail"
    /\ data = 1
    /\ exportsInflight = 1

\* C39: once the promise of shutdown() has resolved, no export is in
\* flight: the export of every batch taken before shutdown() was called,
\* by the timer or by a full buffer too, has settled.  A point passed to
\* add() after shutdown() was called is not buffered and not handed over.
C39_ShutdownWaitsForExports ==
    /\ [](shutdownPromise = "resolved" => exportsInflight = 0)
    /\ [][(isShuttingDown /\ metricsOp'.op = "add")
             => /\ UNCHANGED <<data, exportsInflight>>
                /\ metricsOp'.handed = 0]_vars

\* C40: the batch of LocalUISpanProcessor never holds more than
\* MAX_BATCH_SIZE spans and at most one batch timeout is armed, also while
\* a flushBatch call awaits the health check.
C40_BatchBounded ==
    /\ batchedSpans <= MAX_BATCH_SIZE
    /\ Cardinality(batchTimers) <= 1

\* C34: a capture at a registered identity, made while another capture is
\* suspended on its registration or ship request or while a sync fetch is
\* in flight, waits for none of them: in its own step it runs the lookup
\* and the policy checks and ends as a ship (a snapshot is handed to the
\* transport) or as a skip.
C34_CaptureNeverWaits ==
    [][(/\ lastOp'.op = "capture"
        /\ lastOp'.call.caller # NoCaller
        /\ FunctionLabel(lastOp'.call) \in registrationCache
        /\ (pending # EmptyBag \/ syncInflight > 0))
          => /\ lastOp'.outcome \in {"shipping", "skipped"}
             /\ lastOp'.outcome = "skipped" <=>
                    ~PassesPolicy(MapGet(breakpointsCache,
                                         FunctionLabel(lastOp'.call)), now)]_vars

\* C31: for a breakpoint with max_captures = N > 0 the client hands at most
\* N snapshots to the transport, over any sequence of capture calls and
\* syncs.
C31_BudgetThrottles ==
    \A bp \in ConfigPool :
        bp.max_captures > 0 => handedOver[bp.id] <= bp.max_captures

\* C33: the sync fetches issued and not yet completed stay bounded while
\* the control plane stalls: a tick does not add a fetch on top of every
\* fetch issued before it, so the fetches in flight never make up all of
\* the fetches a behaviour can issue.
C33_InflightBounded == Cardinality(fetches) < MaxIssued

\* C35: the cache reflects the most recently issued successful fetch: the
\* response of an earlier-issued fetch never replaces what the response of
\* a later-issued fetch installed.
C35_LatestFetchWins == [][installed' >= installed]_vars

=============================================================================
